---------------------------- MODULE Spec2Model ----------------------------
(***************************************************************************)
(* MacroChain AI: the POST /analyze request path.                          *)
(*                                                                         *)
(* api/app.py analyze_market -> core/analyzer.py MacroChainAnalyzer        *)
(* -> core/research_pipeline.py ResearchPipeline (macro, sentiment,        *)
(* on-chain, market-structure, synthesis) -> services/research_formatter.py*)
(* -> _convert_to_api_response.                                            *)
(*                                                                         *)
(* Python values: a str that the code measures or rewrites (query, asset   *)
(* entries) is a sequence of one-character strings; a dict is a function   *)
(* from key strings to values, read with Get (dict.get); None for the      *)
(* optional asset list is the record NoneAssets.  A timestamp is the value *)
(* of the clock when datetime.utcnow() is read, a uuid4 is a free choice   *)
(* from ResearchIds.                                                       *)
(*                                                                         *)
(* The handler is `async def` without any await, so one request runs to    *)
(* completion before the next is received; pc walks the handler's steps.   *)
(* An exception raised by the runtime inside a try block (as opposed to    *)
(* one the code's own data produces) is an input of the step, drawn from   *)
(* BOOLEAN and limited to MaxFaults per request.                           *)
(***************************************************************************)
EXTENDS Integers, Sequences, FiniteSets, TLC

VARIABLES
    pc,             \* position of the request handler
    req,            \* the AnalysisRequest being served
    handed,         \* the asset list computed by analyze_market (app.py 150/152)
    ctx,            \* ResearchContext of the running pipeline
    idx,            \* loop position in self.pipeline_phases
    phase_results,  \* list of PhaseResult built by execute_research
    pipeline_result,\* dict returned by execute_research
    analysis_result,\* dict returned by MacroChainAnalyzer.analyze
    research_report,\* dict returned by format_research_report
    resp,           \* the HTTP response of the last finished request
    objs,           \* instance attributes of the module-level components
    clock,          \* datetime.utcnow()
    faults,         \* runtime exceptions injected into the running request
    trace,          \* components invoked for the running request, in order
    warm,           \* whether an earlier request has been answered
    settings,       \* config/settings.py: the Settings instance
    api_config      \* app.py 31: get_api_config() as read at import

vars == <<pc, req, handed, ctx, idx, phase_results, pipeline_result,
          analysis_result, research_report, resp, objs, clock, faults,
          trace, warm, settings, api_config>>

-----------------------------------------------------------------------------
(* Bounds of the model *)

MaxQueryLen == 4        \* longest query sent
MaxShortAssets == 2     \* longest freely composed asset list
MaxAssetEntries == 11   \* longest asset list sent
MaxClock == 1           \* last clock value
MaxFaults == 1          \* runtime exceptions injected per request
MaxPhaseInsights == 4   \* most insights a drawn phase output carries

(* Program constants *)

MinQueryLen == 3        \* app.py 135
MaxAssetsAllowed == 10  \* app.py 143
TopInsights == 10       \* research_pipeline.py 300, research_formatter.py 431
TopRisks == 15          \* research_formatter.py 492

-----------------------------------------------------------------------------
(* Python helpers *)

EmptyDict == [k \in {} |-> TRUE]

Get(d, k, dflt) == IF k \in DOMAIN d THEN d[k] ELSE dflt

\* the value stored under "error" is True (analyzers, formatter) or str(e)
\* (pipeline); it is kept with its type so that its truthiness can be read
PyTrue == [bool |-> TRUE]
PyStr(s) == [str |-> s]
IsTruthy(v) == IF "bool" \in DOMAIN v THEN v.bool ELSE v.str # ""

\* truthiness of dict.get("error")
HasError(d) == "error" \in DOMAIN d /\ IsTruthy(d["error"])

\* the None that dict.get returns for a missing label
PyNone == "<None>"

NonEmptyDict(d) == DOMAIN d # {}

Prefix(s, n) == SubSeq(s, 1, IF Len(s) < n THEN Len(s) ELSE n)

RECURSIVE Rep(_, _)
Rep(x, n) == IF n = 0 THEN <<>> ELSE <<x>> \o Rep(x, n - 1)

Space == " "

\* str.lower() on one character
LowerChar(c) == IF c = "B" THEN "b" ELSE IF c = "A" THEN "a" ELSE c

Lower(s) == [i \in 1..Len(s) |-> LowerChar(s[i])]

RECURSIVE LStrip(_)
LStrip(s) == IF s # <<>> /\ Head(s) = Space THEN LStrip(Tail(s)) ELSE s

RECURSIVE RStrip(_)
RStrip(s) == IF s # <<>> /\ s[Len(s)] = Space
             THEN RStrip(SubSeq(s, 1, Len(s) - 1)) ELSE s

\* str.strip()
Strip(s) == RStrip(LStrip(s))

NoneAssets == [none |-> TRUE]
SomeAssets(l) == [none |-> FALSE, list |-> l]

\* truthiness of an Optional[List[str]]
Truthy(a) == ~a.none /\ a.list # <<>>

-----------------------------------------------------------------------------
(* core/macro.py  MacroAnalyzer.  Dict entries that no code reads           *)
(* ("factors", "indicators", per-item "explanation" texts) are left out.    *)

AnalyzeLiquidityConditions ==
    [overall_status |-> "neutral",       \* _assess_overall_liquidity
     trend |-> "stable",
     key_observations |->
        <<"Global liquidity remains a key driver of crypto market cycles",
          "Liquidity changes often precede price movements in crypto markets",
          "Cross-asset liquidity correlations are important to monitor">>]

AssessRateImplications ==
    [overall |-> "neutral",
     key_considerations |->
        <<"Rate expectations matter more than current rates",
          "Real rates impact investment decisions",
          "Policy divergence creates complexity">>]

AnalyzeInterestRateEnvironment ==
    [implications |-> AssessRateImplications,
     trend |-> "monitoring",
     educational_context |->
        <<"Interest rates are a fundamental driver of asset allocation decisions",
          "Cryptocurrencies often behave like high-duration assets in rate environments",
          "Rate expectations can be more important than current rates">>]

MacroAssessOverallSentiment ==
    [status |-> "neutral", confidence |-> "moderate",
     factors |-> "Mixed signals across different indicators"]

AnalyzeGlobalRiskSentiment ==
    [overall_sentiment |-> MacroAssessOverallSentiment,
     risk_appetite |-> "moderate",
     key_insights |->
        <<"Risk sentiment is a major driver of short-term crypto price movements",
          "Cryptocurrency's role as risk asset vs safe haven continues to evolve",
          "Global risk flows increasingly interconnected across asset classes">>]

AssessRegulatoryOutlook ==
    [trend |-> "neutral", certainty |-> "increasing",
     key_developments |-> "Continued framework development"]

AnalyzeRegulatoryEnvironment ==
    [outlook |-> AssessRegulatoryOutlook,
     focus_areas |->
        <<"Institutional adoption frameworks", "Consumer protection measures",
          "Market structure regulations", "Cross-border coordination">>]

GenerateMacroInsights(liquidity, rates, sentiment, regulatory) ==
    (IF liquidity.overall_status = "tight"
       THEN <<"Tight liquidity conditions may constrain crypto market growth">>
     ELSE IF liquidity.overall_status = "ample"
       THEN <<"Supportive liquidity environment could benefit crypto markets">>
     ELSE <<>>)
    \o
    (IF rates.implications.overall = "challenging"
       THEN <<"Current interest rate environment presents headwinds for risk assets">>
     ELSE IF rates.implications.overall = "supportive"
       THEN <<"Interest rate conditions appear supportive for crypto markets">>
     ELSE <<>>)
    \o
    (IF sentiment.overall_sentiment.status = "risk_off"
       THEN <<"Risk-off sentiment may pressure crypto prices in short term">>
     ELSE IF sentiment.overall_sentiment.status = "risk_on"
       THEN <<"Risk-on environment could support crypto market performance">>
     ELSE <<>>)
    \o
    (IF regulatory.outlook.trend = "positive"
       THEN <<"Evolving regulatory clarity may support institutional adoption">>
     ELSE <<>>)

AssessMacroConditions(liquidity, rates, sentiment) ==
    LET key_drivers ==
            (IF liquidity.overall_status = "tight"
               THEN <<"Liquidity constraints">> ELSE <<>>)
            \o (IF rates.implications.overall = "challenging"
               THEN <<"Unfavorable rate environment">> ELSE <<>>)
            \o (IF sentiment.overall_sentiment.status = "risk_off"
               THEN <<"Risk aversion">> ELSE <<>>)
    IN  [overall |-> IF Len(key_drivers) >= 2 THEN "challenging"
                     ELSE IF Len(key_drivers) = 1 THEN "mixed"
                     ELSE "supportive",
         key_drivers |-> key_drivers,
         outlook |-> "uncertain"]

MacroEducationalNotes ==
    <<"Macroeconomic factors provide context for cryptocurrency market movements",
      "Traditional market relationships with crypto are evolving over time",
      "Global liquidity cycles often correlate with crypto market cycles",
      "Interest rate environments influence relative attractiveness of different assets",
      "Regulatory development is a key factor in long-term market maturation">>

MacroErrorResponse(error_message) ==
    [error |-> PyTrue,
     message |-> "Macro analysis failed: " \o error_message,
     educational_notes |-> MacroEducationalNotes]

\* variant without the catch-all: the exception reaches the caller
MacroAnalyzeUncaught(query, assets, now, raised) ==
    IF raised THEN [raised |-> TRUE, msg |-> "runtime error"]
    ELSE [analysis_type |-> "macroeconomic",
          insights |-> <<>>,
          timestamp |-> now]

\* analyze(query, assets): `raised` is an exception thrown inside its try
MacroAnalyze(query, assets, now, raised) ==
    IF raised THEN MacroErrorResponse("runtime error")
    ELSE
      LET liquidity_analysis == AnalyzeLiquidityConditions
          interest_rate_analysis == AnalyzeInterestRateEnvironment
          risk_sentiment_analysis == AnalyzeGlobalRiskSentiment
          regulatory_analysis == AnalyzeRegulatoryEnvironment
      IN [analysis_type |-> "macroeconomic",
          liquidity_conditions |-> liquidity_analysis,
          interest_rate_environment |-> interest_rate_analysis,
          global_risk_sentiment |-> risk_sentiment_analysis,
          regulatory_environment |-> regulatory_analysis,
          overall_conditions |->
              AssessMacroConditions(liquidity_analysis, interest_rate_analysis,
                                    risk_sentiment_analysis),
          insights |->
              GenerateMacroInsights(liquidity_analysis, interest_rate_analysis,
                                    risk_sentiment_analysis, regulatory_analysis),
          educational_notes |-> MacroEducationalNotes,
          timestamp |-> now]

-----------------------------------------------------------------------------
(* core/sentiment.py  SentimentAnalyzer *)

CalculateFearGreedScore == 50

InterpretFearGreedScore(score) ==
    IF score <= 25 THEN "extreme_fear"
    ELSE IF score <= 45 THEN "fear"
    ELSE IF score <= 55 THEN "neutral"
    ELSE IF score <= 75 THEN "greed"
    ELSE "extreme_greed"

AnalyzeFearGreedIndex ==
    [overall_score |-> CalculateFearGreedScore,
     sentiment_level |-> InterpretFearGreedScore(CalculateFearGreedScore),
     historical_context |->
        "Current sentiment levels appear moderate compared to historical extremes",
     educational_notes |->
        <<"Fear & Greed Index is a contrarian indicator",
          "Extreme readings often precede market reversals",
          "The index combines multiple data points for a comprehensive view",
          "It's most useful when analyzed over time rather than as a snapshot">>]

AnalyzeSocialMediaSentiment ==
    [overall_social_sentiment |-> "neutral",
     volume_trends |-> "stable",
     key_insights |->
        <<"Social media sentiment provides real-time market pulse",
          "Platform-specific differences reflect different user demographics",
          "Volume changes often precede sentiment shifts",
          "Social media can amplify both rational and irrational behaviors">>]

AnalyzeMediaBias ==
    [overall_bias |-> "neutral", bias_diversity |-> "high",
     key_observations |->
        <<"Different media types show varying perspectives",
          "Coverage tends to be more balanced during stable periods",
          "Crisis periods often see more polarized coverage">>]

AnalyzeNewsSentiment ==
    [media_bias_analysis |-> AnalyzeMediaBias,
     coverage_volume |-> "moderate",
     narrative_themes |->
        <<"Regulatory development continues to evolve",
          "Institutional adoption remains a key theme",
          "Technology development progresses despite market cycles",
          "Market volatility attracts media attention">>]

AssessMomentumConditions ==
    [status |-> "neutral", strength |-> "moderate",
     sustainability |-> "uncertain",
     key_factors |->
        <<"Price momentum shows mixed signals across timeframes",
          "Volume momentum suggests some weakening",
          "Relative strength remains positive vs traditional assets">>]

AnalyzeMarketMomentum ==
    [overall_momentum |-> AssessMomentumConditions,
     trend_strength |-> "moderate"]

GenerateSentimentInsights(fear_greed, social, news, momentum) ==
    (IF fear_greed.sentiment_level = "extreme_fear"
       THEN <<"Extreme fear may indicate oversold conditions, but markets can remain irrational longer than expected">>
     ELSE IF fear_greed.sentiment_level = "extreme_greed"
       THEN <<"Extreme greed often coincides with market tops, though timing reversals remains challenging">>
     ELSE <<>>)
    \o
    (IF social.overall_social_sentiment = "overly_optimistic"
       THEN <<"High social media optimism may suggest complacency among market participants">>
     ELSE IF social.overall_social_sentiment = "excessively_fearful"
       THEN <<"Widespread fear on social media may indicate panic selling could be near exhaustion">>
     ELSE <<>>)
    \o
    (IF news.coverage_volume = "high"
        /\ news.media_bias_analysis.overall_bias = "negative"
       THEN <<"High negative media coverage often coincides with market bottoms, though this is not guaranteed">>
     ELSE <<>>)
    \o
    (IF momentum.overall_momentum.status = "weakening"
       THEN <<"Weakening momentum suggests the current trend may be losing strength">>
     ELSE IF momentum.overall_momentum.status = "strengthening"
       THEN <<"Strengthening momentum indicates the current trend has underlying support">>
     ELSE <<>>)

\* the four components in dict insertion order
SentimentComponentKeys == <<"fear_greed", "social_media", "news_sentiment", "momentum">>

\* "{component.replace('_', ' ').title()}: {value}"
TitleOf(key) ==
    CASE key = "fear_greed" -> "Fear Greed"
      [] key = "social_media" -> "Social Media"
      [] key = "news_sentiment" -> "News Sentiment"
      [] key = "momentum" -> "Momentum"
      [] key = "activity_trend" -> "Activity Trend"
      [] key = "holder_sentiment" -> "Holder Sentiment"
      [] key = "transaction_health" -> "Transaction Health"
      [] key = "network_vitality" -> "Network Vitality"
      [] key = "macro" -> "Macro"
      [] key = "sentiment" -> "Sentiment"
      [] key = "onchain" -> "Onchain"
      [] key = "structure" -> "Structure"

\* the entries of keys (dict order) whose value is in vals, as "Title: value"
RECURSIVE Labelled(_, _, _)
Labelled(keys, d, vals) ==
    IF keys = <<>> THEN <<>>
    ELSE (IF Head(keys) \in DOMAIN d /\ d[Head(keys)] \in vals
            THEN <<TitleOf(Head(keys)) \o ": " \o d[Head(keys)]>>
            ELSE <<>>)
         \o Labelled(Tail(keys), d, vals)

\* the entries of keys (dict order) whose value is not in vals
RECURSIVE LabelledNotIn(_, _, _)
LabelledNotIn(keys, d, vals) ==
    IF keys = <<>> THEN <<>>
    ELSE (IF Head(keys) \in DOMAIN d /\ d[Head(keys)] \notin vals
            THEN <<TitleOf(Head(keys)) \o ": " \o d[Head(keys)]>>
            ELSE <<>>)
         \o LabelledNotIn(Tail(keys), d, vals)

CountIn(keys, d, vals) ==
    Cardinality({i \in 1..Len(keys) :
                    keys[i] \in DOMAIN d /\ d[keys[i]] \in vals})

SentimentAssessOverallSentiment(fear_greed, social, news, momentum) ==
    LET sentiment_components ==
            [fear_greed |-> fear_greed.sentiment_level,
             social_media |-> social.overall_social_sentiment,
             news_sentiment |-> news.media_bias_analysis.overall_bias,
             momentum |-> momentum.overall_momentum.status]
        positive_signals ==
            CountIn(SentimentComponentKeys, sentiment_components,
                    {"extreme_greed", "optimistic", "bullish", "strengthening"})
        negative_signals ==
            CountIn(SentimentComponentKeys, sentiment_components,
                    {"extreme_fear", "pessimistic", "bearish", "weakening"})
    IN  [overall_sentiment |->
            IF positive_signals > negative_signals THEN "positive"
            ELSE IF negative_signals > positive_signals THEN "negative"
            ELSE "neutral",
         components |-> sentiment_components,
         confidence |-> "moderate",
         \* _identify_sentiment_drivers
         key_drivers |->
            LabelledNotIn(SentimentComponentKeys, sentiment_components,
                          {"neutral"}),
         \* _identify_contrarian_signals
         contrarian_signals |->
            IF sentiment_components.fear_greed \in {"extreme_fear", "extreme_greed"}
              THEN <<"Extreme Fear & Greed reading may present contrarian opportunity">>
              ELSE <<>>]

SentimentEducationalContext ==
    <<"Sentiment analysis helps understand market psychology",
      "Extreme sentiment readings often coincide with turning points",
      "Sentiment is most useful when combined with other analysis types",
      "Social media sentiment can be manipulated and should be verified",
      "News sentiment reflects media priorities as much as market reality",
      "Momentum indicators work best when confirming other signals">>

SentimentErrorResponse(error_message) ==
    [error |-> PyTrue,
     message |-> "Sentiment analysis failed: " \o error_message,
     educational_context |-> SentimentEducationalContext]

SentimentAnalyze(query, assets, now, raised) ==
    IF raised THEN SentimentErrorResponse("runtime error")
    ELSE
      LET fear_greed_analysis == AnalyzeFearGreedIndex
          social_sentiment == AnalyzeSocialMediaSentiment
          news_sentiment == AnalyzeNewsSentiment
          momentum_analysis == AnalyzeMarketMomentum
      IN [analysis_type |-> "sentiment",
          fear_greed_index |-> fear_greed_analysis,
          social_media_sentiment |-> social_sentiment,
          news_sentiment |-> news_sentiment,
          market_momentum |-> momentum_analysis,
          overall_sentiment |->
              SentimentAssessOverallSentiment(fear_greed_analysis, social_sentiment,
                                              news_sentiment, momentum_analysis),
          insights |->
              GenerateSentimentInsights(fear_greed_analysis, social_sentiment,
                                        news_sentiment, momentum_analysis),
          educational_context |-> SentimentEducationalContext,
          timestamp |-> now]

-----------------------------------------------------------------------------
(* core/onchain.py  OnChainAnalyzer.  A function that can raise returns     *)
(* Raise(str(e)) or Return(value).                                          *)

Raise(msg) == [raised |-> TRUE, msg |-> msg]
Return(v) == [raised |-> FALSE, value |-> v]

AnalyzeNetworkActivity ==
    [overall_activity |->                       \* _assess_activity_trends
        [trend |-> "stable", strength |-> "moderate",
         sustainability |-> "likely_sustainable"],
     growth_indicators |->                      \* _identify_growth_indicators
        <<"New address creation shows user acquisition",
          "DApp activity demonstrates utility beyond speculation",
          "Network utilization indicates demand for services">>,
     usage_patterns |->                         \* _analyze_usage_patterns
        [primary_usage |-> "transfers_and_dapps",
         user_engagement |-> "moderate",
         retention_indicators |-> "positive"]]

AnalyzeHolderBehavior ==
    [behavioral_insights |->                    \* _analyze_holder_patterns
        [long_term_trend |-> "accumulation",
         distribution_pattern |-> "stable",
         overall_sentiment |-> "cautiously_optimistic"],
     market_maturity |-> "maturing",            \* _assess_market_maturity
     risk_indicators |->                        \* _identify_holder_risks
        <<"Concentration risk if whale holdings increase",
          "Liquidity risk if long-term holders start distributing",
          "Volatility risk if short-term holders dominate">>]

\* _analyze_efficiency
AnalyzeEfficiency ==
    [fee_efficiency |-> "good",
     throughput_utilization |-> "moderate",
     cost_effectiveness |-> "reasonable"]

AnalyzeTransactionMetrics ==
    [transaction_insights |->                   \* _analyze_transaction_patterns
        [volume_trend |-> "stable", efficiency_trend |-> "improving",
         usage_evolution |-> "maturing"],
     efficiency_metrics |-> AnalyzeEfficiency,
     economic_activity |->                      \* _assess_economic_activity
        [status |-> "moderate", trend |-> "stable", quality |-> "improving"]]

AnalyzeNetworkHealth ==
    [overall_health |->                         \* _assess_network_vitality
        [status |-> "healthy", strength |-> "strong", resilience |-> "good"],
     security_analysis |->                      \* _analyze_security_posture
        [overall_security |-> "strong", attack_resistance |-> "high",
         decentralization |-> "adequate"],
     sustainability_factors |->                 \* _assess_sustainability
        <<"Active development ensures continuous improvement",
          "Diverse ecosystem reduces single points of failure",
          "Healthy economic incentives support network security">>]

\* the four if/elif blocks, in order; a subscript of a missing key raises
\* KeyError, whose str() is the quoted key
GenerateOnchainInsights(activity, holders, transactions, health) ==
    LET i1 == IF activity.overall_activity.trend = "growing"
                THEN <<"Growing network activity suggests increasing adoption and utility">>
              ELSE IF activity.overall_activity.trend = "declining"
                THEN <<"Declining activity may indicate reduced usage or market fatigue">>
              ELSE <<>>
        i2 == IF holders.behavioral_insights.long_term_trend = "accumulation"
                THEN <<"Long-term holder accumulation suggests conviction in network fundamentals">>
              ELSE IF holders.behavioral_insights.distribution_pattern = "distribution"
                THEN <<"Distribution from long-term holders may indicate profit-taking or reduced conviction">>
              ELSE <<>>
        i4 == IF health.overall_health.status = "strong"
                THEN <<"Strong network health provides foundation for long-term growth">>
              ELSE IF health.overall_health.status = "concerning"
                THEN <<"Network health concerns may require attention for sustainable development">>
              ELSE <<>>
    IN  IF transactions.economic_activity.trend = "increasing"
          THEN Return(i1 \o i2
                 \o <<"Rising transaction volume indicates growing economic activity on-chain">>
                 \o i4)
        ELSE IF "fee_pressure" \notin DOMAIN transactions.efficiency_metrics
          THEN Raise("'fee_pressure'")
        ELSE IF transactions.efficiency_metrics.fee_pressure = "high"
          THEN Return(i1 \o i2
                 \o <<"High fee pressure may constrain smaller transactions and affect user experience">>
                 \o i4)
        ELSE Return(i1 \o i2 \o i4)

ConditionFactorKeys ==
    <<"activity_trend", "holder_sentiment", "transaction_health", "network_vitality">>

AssessNetworkConditions(activity, holders, transactions, health) ==
    LET condition_factors ==
            [activity_trend |-> activity.overall_activity.trend,
             holder_sentiment |-> holders.behavioral_insights.overall_sentiment,
             transaction_health |-> transactions.economic_activity.status,
             network_vitality |-> health.overall_health.status]
        pos == {"growing", "accumulation", "healthy", "strong"}
        neg == {"declining", "distribution", "unhealthy", "weak"}
        positive_factors == CountIn(ConditionFactorKeys, condition_factors, pos)
        negative_factors == CountIn(ConditionFactorKeys, condition_factors, neg)
    IN  [overall_status |->
            IF positive_factors > negative_factors THEN "positive"
            ELSE IF negative_factors > positive_factors THEN "negative"
            ELSE "neutral",
         key_factors |-> condition_factors,
         strengths |-> Labelled(ConditionFactorKeys, condition_factors, pos),
         concerns |-> Labelled(ConditionFactorKeys, condition_factors, neg),
         outlook |-> "stable"]

OnchainEducationalExplanations ==
    <<"On-chain metrics provide transparent insights into network activity",
      "Blockchain data allows for unprecedented market analysis capabilities",
      "Network fundamentals often diverge from price action in short term",
      "Long-term value correlates with network utility and adoption",
      "On-chain analysis complements traditional market analysis methods",
      "Understanding blockchain metrics helps assess project fundamentals">>

OnchainErrorResponse(error_message) ==
    [error |-> PyTrue,
     message |-> "On-chain analysis failed: " \o error_message,
     educational_explanations |-> OnchainEducationalExplanations]

OnChainAnalyze(query, assets, now, raised) ==
    IF raised THEN OnchainErrorResponse("runtime error")
    ELSE
      LET network_activity == AnalyzeNetworkActivity
          holder_behavior == AnalyzeHolderBehavior
          transaction_metrics == AnalyzeTransactionMetrics
          network_health == AnalyzeNetworkHealth
          insights == GenerateOnchainInsights(network_activity, holder_behavior,
                                              transaction_metrics, network_health)
      IN IF insights.raised THEN OnchainErrorResponse(insights.msg)
         ELSE
           [analysis_type |-> "onchain",
            network_activity |-> network_activity,
            holder_behavior |-> holder_behavior,
            transaction_metrics |-> transaction_metrics,
            network_health |-> network_health,
            network_conditions |->
                AssessNetworkConditions(network_activity, holder_behavior,
                                        transaction_metrics, network_health),
            insights |-> insights.value,
            educational_explanations |-> OnchainEducationalExplanations,
            timestamp |-> now]

-----------------------------------------------------------------------------
(* core/market_structure.py  MarketStructureAnalyzer *)

PhaseIndicators ==
    [price_characteristics |->
        [directional_bias |-> "neutral", momentum_quality |-> "moderate",
         trend_consistency |-> "variable"],
     volume_patterns |->
        [volume_trend |-> "stable", volume_quality |-> "moderate",
         participation_level |-> "moderate"]]

ClassifyMarketPhase(indicators) ==
    LET price_bias == indicators.price_characteristics.directional_bias
        volume_quality == indicators.volume_patterns.volume_quality
    IN  IF price_bias = "neutral" /\ volume_quality = "moderate" THEN "range"
        ELSE IF price_bias \in {"bullish", "bearish"} /\ volume_quality = "strong"
          THEN (IF price_bias = "bullish" THEN "trend_up" ELSE "trend_down")
        ELSE "uncertain"

GetPhaseCharacteristics(phase) ==
    CASE phase = "range" ->
           [description |-> "Price moves within defined boundaries",
            typical_duration |-> "weeks to months",
            volatility_tendency |-> "moderate",
            breakout_potential |-> "present"]
      [] phase = "trend_up" ->
           [description |-> "Sustained upward price movement",
            typical_duration |-> "months",
            volatility_tendency |-> "low_to_moderate",
            momentum_characteristics |-> "positive"]
      [] phase = "trend_down" ->
           [description |-> "Sustained downward price movement",
            typical_duration |-> "months",
            volatility_tendency |-> "moderate_to_high",
            momentum_characteristics |-> "negative"]
      [] phase = "transition" ->
           [description |-> "Market structure changing between phases",
            typical_duration |-> "days to weeks",
            volatility_tendency |-> "increasing",
            uncertainty_level |-> "high"]
      [] OTHER ->
           [description |-> "Clear phase classification not possible",
            typical_duration |-> "variable",
            volatility_tendency |-> "variable",
            clarity_level |-> "low"]

IdentifyTransitionRisks(phase) ==
    <<"Phase transitions can occur without warning",
      "Volatility often increases during transitions",
      "Liquidity may deteriorate during structural changes">>
    \o (IF phase = "range"
          THEN <<"Range breakouts can be explosive and unpredictable">>
        ELSE IF phase \in {"trend_up", "trend_down"}
          THEN <<"Trend exhaustion can lead to rapid reversals">>
        ELSE <<>>)

AnalyzeMarketPhase ==
    LET market_phase == ClassifyMarketPhase(PhaseIndicators)
    IN  [current_phase |-> market_phase,
         phase_confidence |-> "moderate",       \* _assess_phase_confidence
         phase_characteristics |-> GetPhaseCharacteristics(market_phase),
         transition_risks |-> IdentifyTransitionRisks(market_phase)]

GetRegimeCharacteristics(regime) ==
    CASE regime = "low" ->
           [description |-> "Minimal price fluctuations",
            risk_profile |-> "lower",
            participant_impact |-> "favors position holders"]
      [] regime = "high" ->
           [description |-> "Significant price fluctuations",
            risk_profile |-> "higher",
            participant_impact |-> "favors short-term traders"]
      [] regime = "extreme" ->
           [description |-> "Very large price fluctuations",
            risk_profile |-> "very_high",
            participant_impact |-> "creates both risks and opportunities"]
      [] OTHER ->
           [description |-> "Moderate price fluctuations",
            risk_profile |-> "moderate",
            participant_impact |-> "balanced across strategies"]

AssessVolatilityRisks(regime) ==
    <<"Volatility can increase suddenly and unexpectedly",
      "High volatility increases execution risk and slippage",
      "Volatility clustering can create extended periods of risk">>
    \o (IF regime \in {"high", "extreme"}
          THEN <<"Current regime presents elevated risk levels">> ELSE <<>>)

AnalyzeVolatilityRegime ==
    LET volatility_regime == "medium"   \* volatility_level.current_regime
    IN  [current_regime |-> volatility_regime,
         regime_stability |-> "moderate",   \* volatility_persistence.regime_stability
         regime_characteristics |-> GetRegimeCharacteristics(volatility_regime),
         risk_implications |-> AssessVolatilityRisks(volatility_regime)]

ClassifyLiquidityCondition(depth_level, impact_level) ==
    IF depth_level = "high" /\ impact_level = "low" THEN "ample"
    ELSE IF depth_level = "low" /\ impact_level = "high" THEN "tight"
    ELSE "moderate"

GetLiquidityCharacteristics(condition) ==
    CASE condition = "ample" ->
           [description |-> "Abundant liquidity across price levels",
            execution_impact |-> "minimal",
            cost_implications |-> "lower transaction costs"]
      [] condition = "tight" ->
           [description |-> "Limited liquidity at key price levels",
            execution_impact |-> "significant",
            cost_implications |-> "higher transaction costs"]
      [] condition = "very_tight" ->
           [description |-> "Very limited liquidity throughout order book",
            execution_impact |-> "severe",
            cost_implications |-> "very high transaction costs"]
      [] OTHER ->
           [description |-> "Sufficient liquidity with some limitations",
            execution_impact |-> "moderate",
            cost_implications |-> "reasonable transaction costs"]

AssessExecutionConsiderations(condition) ==
    <<"Market impact increases with trade size",
      "Timing of execution affects transaction costs",
      "Order type selection becomes more important in tight conditions">>
    \o (IF condition \in {"tight", "very_tight"}
          THEN <<"Current liquidity conditions require careful execution planning">>
          ELSE <<>>)

StructureAnalyzeLiquidityConditions ==
    LET liquidity_condition == ClassifyLiquidityCondition("moderate", "moderate")
    IN  [current_condition |-> liquidity_condition,
         condition_stability |-> "moderate",    \* _assess_liquidity_stability
         condition_characteristics |-> GetLiquidityCharacteristics(liquidity_condition),
         execution_considerations |-> AssessExecutionConsiderations(liquidity_condition)]

\* seasonal_patterns "present", day_of_week_effects "mild"
IdentifyStructuralBiases ==
    <<"Seasonal patterns suggest recurring time-based effects">>

AnalyzeMarketEfficiency ==
    [efficiency_level |-> "moderate",           \* _assess_efficiency_level
     structural_biases |-> IdentifyStructuralBiases,
     efficiency_characteristics |->             \* _get_efficiency_characteristics
        [description |-> "Prices reasonably reflect available information",
         arbitrage_opportunities |-> "occasional",
         predictability |-> "moderate"],
     bias_implications |->                      \* _assess_bias_implications
        <<"Structural biases may create temporary inefficiencies",
          "Bias exploitation requires careful risk management",
          "Biases can change or disappear over time">>
        \o (IF IdentifyStructuralBiases # <<>>
              THEN <<"Identified biases warrant further investigation">>
              ELSE <<>>)]

GenerateStructureInsights(phase, volatility, liquidity, efficiency) ==
    LET current_phase == Get(phase, "current_phase", "uncertain")
        volatility_regime == Get(volatility, "current_regime", "medium")
        liquidity_condition == Get(liquidity, "current_condition", "moderate")
        efficiency_level == Get(efficiency, "efficiency_level", "moderate")
    IN  (IF current_phase = "range"
           THEN <<"Range-bound market structure suggests defined support/resistance levels">>
         ELSE IF current_phase \in {"trend_up", "trend_down"}
           THEN <<"Trending market structure indicates directional momentum">>
         ELSE IF current_phase = "transition"
           THEN <<"Transition phase suggests potential structural changes ahead">>
         ELSE <<>>)
        \o
        (IF volatility_regime = "high"
           THEN <<"High volatility regime suggests increased uncertainty and risk">>
         ELSE IF volatility_regime = "low"
           THEN <<"Low volatility regime may indicate market complacency or consolidation">>
         ELSE <<>>)
        \o
        (IF liquidity_condition = "tight"
           THEN <<"Tight liquidity conditions may increase execution costs and market impact">>
         ELSE IF liquidity_condition = "ample"
           THEN <<"Ample liquidity conditions support efficient price discovery">>
         ELSE <<>>)
        \o
        (IF efficiency_level = "low"
           THEN <<"Lower market efficiency may create temporary structural opportunities">>
         ELSE IF efficiency_level = "high"
           THEN <<"Higher market efficiency suggests prices quickly reflect available information">>
         ELSE <<>>)

AssessMarketStructure(phase, volatility, liquidity, efficiency) ==
    LET structure_components ==
            [market_phase |-> Get(phase, "current_phase", "uncertain"),
             volatility_regime |-> Get(volatility, "current_regime", "medium"),
             liquidity_condition |-> Get(liquidity, "current_condition", "moderate"),
             efficiency_level |-> Get(efficiency, "efficiency_level", "moderate")]
    IN  [overall_structure |-> structure_components,
         structure_quality |-> "moderate",      \* _assess_structure_quality
         risk_context |->                       \* _assess_structure_risk_context
            [overall_risk |-> "moderate",
             key_risk_factors |->
                <<"Market structure can change without warning",
                  "Current conditions may not persist",
                  "Structural analysis has inherent limitations">>],
         structural_strengths |->               \* _identify_structure_strengths
            (IF structure_components.liquidity_condition = "ample"
               THEN <<"Strong liquidity supports efficient execution">> ELSE <<>>)
            \o (IF structure_components.volatility_regime = "low"
               THEN <<"Low volatility reduces execution uncertainty">> ELSE <<>>),
         structural_concerns |->                \* _identify_structure_concerns
            (IF structure_components.liquidity_condition \in {"tight", "very_tight"}
               THEN <<"Tight liquidity may increase execution costs">> ELSE <<>>)
            \o (IF structure_components.volatility_regime \in {"high", "extreme"}
               THEN <<"High volatility increases market risk">> ELSE <<>>),
         market_maturity |-> "developing"]

StructureEducationalContext ==
    <<"Market structure analysis provides context for price movements",
      "Understanding structure helps assess risk and opportunity",
      "Structure analysis complements other forms of market analysis",
      "Market structure is dynamic and can change rapidly",
      "Structural analysis is educational, not predictive">>

GetAssumptions ==
    <<"Market structure analysis is based on conceptual frameworks",
      "Current conditions may not reflect future states",
      "Structural patterns have varying degrees of reliability",
      "Analysis does not account for unexpected market events">>

GetLimitations ==
    <<"Analysis does not use real-time market data",
      "Structural analysis cannot predict market movements",
      "Market structure classification has inherent uncertainty",
      "Educational focus limits practical trading applications">>

StructureErrorResponse(error_message) ==
    [error |-> PyTrue,
     message |-> "Market structure analysis failed: " \o error_message,
     educational_context |-> StructureEducationalContext,
     assumptions |-> GetAssumptions,
     limitations |-> GetLimitations]

MarketStructureAnalyze(query, assets, now, raised) ==
    IF raised THEN StructureErrorResponse("runtime error")
    ELSE
      LET phase_analysis == AnalyzeMarketPhase
          volatility_analysis == AnalyzeVolatilityRegime
          liquidity_analysis == StructureAnalyzeLiquidityConditions
          efficiency_analysis == AnalyzeMarketEfficiency
      IN [analysis_type |-> "market_structure",
          market_phase |-> phase_analysis,
          volatility_regime |-> volatility_analysis,
          liquidity_conditions |-> liquidity_analysis,
          market_efficiency |-> efficiency_analysis,
          structure_assessment |->
              AssessMarketStructure(phase_analysis, volatility_analysis,
                                    liquidity_analysis, efficiency_analysis),
          insights |->
              GenerateStructureInsights(phase_analysis, volatility_analysis,
                                        liquidity_analysis, efficiency_analysis),
          educational_context |-> StructureEducationalContext,
          assumptions |-> GetAssumptions,
          limitations |-> GetLimitations,
          timestamp |-> now]

-----------------------------------------------------------------------------
(* core/research_pipeline.py  ResearchPipeline *)

\* ResearchPhase values, and self.pipeline_phases as built by __init__
AnalysisPhases == {"macro", "sentiment", "onchain", "market_structure"}

\* variant in which the synthesis is listed before the last analysis phase
PipelinePhasesSynthesisEarly ==
    <<"macro", "sentiment", "onchain", "synthesis", "market_structure">>

PipelinePhases == <<"macro", "sentiment", "onchain", "market_structure", "synthesis">>

\* uuid.uuid4()
ResearchIds == {"id-1", "id-2"}

DefaultAssets == << <<"b","i","t","c","o","i","n">>, <<"e","t","h","e","r","e","u","m">> >>

\* variant of the context that falls back on the default assets only when
\* no list is handed over
NewContextOfAnyList(query, assets, now, id) ==
    [query |-> query,
     assets |-> IF assets.none THEN DefaultAssets ELSE assets.list,
     timestamp |-> now,
     research_id |-> id]

\* ResearchContext(...), lines 99-106, with `assets or ["bitcoin", "ethereum"]`
NewContext(query, assets, now, id) ==
    [query |-> query,
     assets |-> IF Truthy(assets) THEN assets.list ELSE DefaultAssets,
     timestamp |-> now,
     research_id |-> id]

PhaseResult(phase, data) ==
    [phase |-> phase,
     data |-> data,
     confidence |-> Get(data, "confidence_level", "moderate"),
     assumptions |-> Get(data, "assumptions", <<>>),
     limitations |-> Get(data, "limitations", <<>>)]

\* _execute_analysis_phase: the result of the analyzer is wrapped; an
\* exception that reaches the try body is answered by the except clause,
\* lines 176-185 (execution_time is not modelled)
ExecuteAnalysisPhase(phase, context, now, raised) ==
    LET data ==
          CASE phase = "macro" ->
                 MacroAnalyze(context.query, context.assets, now, raised)
            [] phase = "sentiment" ->
                 SentimentAnalyze(context.query, context.assets, now, raised)
            [] phase = "onchain" ->
                 OnChainAnalyze(context.query, context.assets, now, raised)
            [] phase = "market_structure" ->
                 MarketStructureAnalyze(context.query, context.assets, now, raised)
    IN  IF Get(data, "raised", FALSE) = TRUE
          THEN [phase |-> phase,
                data |-> [error |-> PyStr(data.msg)],
                confidence |-> "low",
                assumptions |-> <<"Analysis failed: " \o data.msg>>,
                limitations |-> <<"Phase execution error">>]
          ELSE PhaseResult(phase, data)

RECURSIVE GetPhaseData(_, _)
GetPhaseData(results, phase) ==
    IF results = <<>> THEN EmptyDict
    ELSE IF Head(results).phase = phase THEN Head(results).data
    ELSE GetPhaseData(Tail(results), phase)

\* `if data and not data.get("error")`
Succeeded(data) == NonEmptyDict(data) /\ ~HasError(data)

IdentifyCrossPhaseCorrelations(macro, sentiment, onchain, structure) ==
    (IF Get(Get(macro, "overall_conditions", EmptyDict), "overall", PyNone) = "challenging"
        /\ Get(Get(sentiment, "overall_sentiment", EmptyDict), "overall_sentiment", PyNone) = "negative"
       THEN <<[type |-> "macro_sentiment",
               phases |-> <<"macro", "sentiment">>,
               observation |-> "Challenging macro conditions align with negative sentiment",
               strength |-> "strong", significance |-> "high"]>>
       ELSE <<>>)
    \o
    (IF Get(Get(onchain, "network_conditions", EmptyDict), "overall_status", PyNone) = "positive"
        /\ Get(Get(structure, "market_phase", EmptyDict), "trend_strength", PyNone) = "strong"
       THEN <<[type |-> "onchain_structure",
               phases |-> <<"onchain", "market_structure">>,
               observation |-> "Strong network fundamentals support robust market structure",
               strength |-> "moderate", significance |-> "medium"]>>
       ELSE <<>>)
    \o
    (IF Get(Get(sentiment, "overall_sentiment", EmptyDict), "overall_sentiment", PyNone) = "neutral"
        /\ Get(Get(structure, "market_phase", EmptyDict), "phase", PyNone) = "range"
       THEN <<[type |-> "sentiment_structure",
               phases |-> <<"sentiment", "market_structure">>,
               observation |-> "Neutral sentiment coincides with range-bound market structure",
               strength |-> "moderate", significance |-> "medium"]>>
       ELSE <<>>)

StateIndicatorKeys == <<"macro", "sentiment", "onchain", "structure">>

\* state_indicators: one label per phase whose data is a non-empty dict
StateIndicators(macro, sentiment, onchain, structure) ==
    LET label ==
          [macro |-> Get(Get(macro, "overall_conditions", EmptyDict), "overall", "neutral"),
           sentiment |-> Get(Get(sentiment, "overall_sentiment", EmptyDict), "overall_sentiment", "neutral"),
           onchain |-> Get(Get(onchain, "network_conditions", EmptyDict), "overall_status", "neutral"),
           structure |-> Get(Get(structure, "market_phase", EmptyDict), "overall_bias", "neutral")]
        present ==
          {k \in DOMAIN label :
              \/ k = "macro" /\ NonEmptyDict(macro)
              \/ k = "sentiment" /\ NonEmptyDict(sentiment)
              \/ k = "onchain" /\ NonEmptyDict(onchain)
              \/ k = "structure" /\ NonEmptyDict(structure)}
    IN  [k \in present |-> label[k]]

PositiveLabels == {"positive", "supportive", "strong"}
NegativeLabels == {"negative", "challenging", "weak"}

\* _identify_dominant_factors
IdentifyDominantFactors(state_indicators) ==
    LabelledNotIn(StateIndicatorKeys, state_indicators, {"neutral"})

\* variant in which a tie counts as positive
AssessOverallMarketStateTies(macro, sentiment, onchain, structure) ==
    LET state_indicators == StateIndicators(macro, sentiment, onchain, structure)
        positive_count == CountIn(StateIndicatorKeys, state_indicators, PositiveLabels)
        negative_count == CountIn(StateIndicatorKeys, state_indicators, NegativeLabels)
    IN  [overall_state |->
            IF positive_count >= negative_count THEN "positive"
            ELSE "negative",
         phase_indicators |-> state_indicators,
         state_confidence |-> "moderate",
         dominant_factors |-> IdentifyDominantFactors(state_indicators)]

AssessOverallMarketState(macro, sentiment, onchain, structure) ==
    LET state_indicators == StateIndicators(macro, sentiment, onchain, structure)
        positive_count == CountIn(StateIndicatorKeys, state_indicators, PositiveLabels)
        negative_count == CountIn(StateIndicatorKeys, state_indicators, NegativeLabels)
    IN  [overall_state |->
            IF positive_count > negative_count THEN "positive"
            ELSE IF negative_count > positive_count THEN "negative"
            ELSE "neutral",
         phase_indicators |-> state_indicators,
         state_confidence |-> "moderate",
         dominant_factors |-> IdentifyDominantFactors(state_indicators)]

RECURSIVE Prefixed(_, _)
Prefixed(title, items) ==
    IF items = <<>> THEN <<>>
    ELSE <<title \o ": " \o Head(items)>> \o Prefixed(title, Tail(items))

\* the phase-specific part of _compile_assumptions / _compile_limitations
PhaseSpecific(key, macro, sentiment, onchain, structure) ==
    (IF Succeeded(macro) THEN Prefixed("Macro", Get(macro, key, <<>>)) ELSE <<>>)
    \o (IF Succeeded(sentiment) THEN Prefixed("Sentiment", Get(sentiment, key, <<>>)) ELSE <<>>)
    \o (IF Succeeded(onchain) THEN Prefixed("Onchain", Get(onchain, key, <<>>)) ELSE <<>>)
    \o (IF Succeeded(structure) THEN Prefixed("Structure", Get(structure, key, <<>>)) ELSE <<>>)

CompileAssumptions(macro, sentiment, onchain, structure) ==
    <<"Analysis is based on conceptual and educational frameworks",
      "Market conditions are dynamic and may change rapidly",
      "Historical patterns may not repeat in future conditions",
      "Multiple factors influence cryptocurrency market dynamics">>
    \o PhaseSpecific("assumptions", macro, sentiment, onchain, structure)

CompileLimitations(macro, sentiment, onchain, structure) ==
    <<"Analysis does not use real-time market data",
      "Educational focus limits predictive capabilities",
      "Market complexity exceeds analytical frameworks",
      "Unforeseen events can invalidate current analysis">>
    \o PhaseSpecific("limitations", macro, sentiment, onchain, structure)

\* variant of the count that takes every phase without an error for a
\* success, one without data included
SuccessfulPhasesCountingEmpty(macro, sentiment, onchain, structure) ==
    Cardinality({i \in 1..4 : ~HasError(<<macro, sentiment, onchain, structure>>[i])})

\* `sum(1 for data in [...] if data and not data.get("error"))`
SuccessfulPhases(macro, sentiment, onchain, structure) ==
    Cardinality({i \in 1..4 : Succeeded(<<macro, sentiment, onchain, structure>>[i])})

\* quality_score = successful_phases / 4 compared with 0.75 and 0.5
AssessResearchQuality(macro, sentiment, onchain, structure) ==
    LET successful_phases == SuccessfulPhases(macro, sentiment, onchain, structure)
        total_phases == 4
    IN  [quality_level |->
            IF successful_phases * 4 >= 3 * total_phases THEN "high"
            ELSE IF successful_phases * 2 >= total_phases THEN "moderate"
            ELSE "low",
         successful_phases |-> successful_phases,
         total_phases |-> total_phases]

ConfidenceScore(conf) ==
    CASE conf = "high" -> 3 [] conf = "moderate" -> 2 [] conf = "low" -> 1 [] OTHER -> 2

\* avg_score = sum(scores) / len(scores) compared with 2.5 and 1.5
CalculateOverallConfidence(macro, sentiment, onchain, structure) ==
    LET all == <<macro, sentiment, onchain, structure>>
        ok == {i \in 1..4 : Succeeded(all[i])}
        score(i) == ConfidenceScore(Get(all[i], "confidence_level", "moderate"))
        RECURSIVE Sum(_)
        Sum(S) == IF S = {} THEN 0
                  ELSE LET i == CHOOSE j \in S : TRUE IN score(i) + Sum(S \ {i})
    IN  IF ok = {} THEN "low"
        ELSE IF 2 * Sum(ok) >= 5 * Cardinality(ok) THEN "moderate_to_high"
        ELSE IF 2 * Sum(ok) >= 3 * Cardinality(ok) THEN "moderate"
        ELSE "low"

\* variant that also collects the insights of failed phases
AllInsightsOfAnyPhase(macro, sentiment, onchain, structure) ==
    Get(macro, "insights", <<>>) \o Get(sentiment, "insights", <<>>)
    \o Get(onchain, "insights", <<>>) \o Get(structure, "insights", <<>>)

AllInsights(macro, sentiment, onchain, structure) ==
    (IF Succeeded(macro) THEN Get(macro, "insights", <<>>) ELSE <<>>)
    \o (IF Succeeded(sentiment) THEN Get(sentiment, "insights", <<>>) ELSE <<>>)
    \o (IF Succeeded(onchain) THEN Get(onchain, "insights", <<>>) ELSE <<>>)
    \o (IF Succeeded(structure) THEN Get(structure, "insights", <<>>) ELSE <<>>)

SynthesizeAnalyses(macro, sentiment, onchain, structure) ==
    LET all_insights == AllInsights(macro, sentiment, onchain, structure)
    IN  [synthesis_type |-> "comprehensive_market_analysis",
         total_insights |-> Len(all_insights),
         key_insights |-> Prefix(all_insights, TopInsights),
         cross_phase_correlations |->
            IdentifyCrossPhaseCorrelations(macro, sentiment, onchain, structure),
         overall_market_state |->
            AssessOverallMarketState(macro, sentiment, onchain, structure),
         research_quality |->
            AssessResearchQuality(macro, sentiment, onchain, structure),
         assumptions |-> CompileAssumptions(macro, sentiment, onchain, structure),
         limitations |-> CompileLimitations(macro, sentiment, onchain, structure),
         confidence_level |->
            CalculateOverallConfidence(macro, sentiment, onchain, structure)]

\* _execute_synthesis_phase: `raised` is an exception thrown inside its try
ExecuteSynthesisPhase(context, results, raised) ==
    IF raised
      THEN [phase |-> "synthesis",
            data |-> [error |-> PyStr("runtime error")],
            confidence |-> "low",
            assumptions |-> <<"Synthesis failed: " \o "runtime error">>,
            limitations |-> <<"Synthesis execution error">>]
      ELSE PhaseResult("synthesis",
              SynthesizeAnalyses(GetPhaseData(results, "macro"),
                                 GetPhaseData(results, "sentiment"),
                                 GetPhaseData(results, "onchain"),
                                 GetPhaseData(results, "market_structure")))

GetResearchDisclaimer ==
    "This research report is for educational and informational purposes only. "
    \o "It does not constitute financial advice, investment recommendations, or trading signals. "
    \o "Cryptocurrency markets are highly volatile and risky. Always conduct your own research "
    \o "and consult with qualified financial professionals before making any investment decisions."

\* variant of the status that reports the synthesis as a success whatever
\* its data
PhaseStatusOfAnalysis(result) ==
    IF result.phase = "synthesis" \/ ~HasError(result.data) THEN "success" ELSE "failed"

\* `"success" if not result.data.get("error") else "failed"`
PhaseStatus(result) == IF ~HasError(result.data) THEN "success" ELSE "failed"

\* _compile_research_report (self is the pipeline instance)
CompileResearchReport(self, context, results) ==
    LET synth == SelectSeq(results, LAMBDA r : r.phase = "synthesis")
        synthesis_data == IF synth # <<>> THEN synth[1].data ELSE EmptyDict
        phases == {results[i].phase : i \in 1..Len(results)}
        last(p) == CHOOSE i \in 1..Len(results) :
                      /\ results[i].phase = p
                      /\ \A j \in (i + 1)..Len(results) : results[j].phase # p
    IN  [research_metadata |->
            [research_id |-> context.research_id,
             query |-> context.query,
             assets_analyzed |-> context.assets,
             timestamp |-> context.timestamp,
             pipeline_version |-> "1.0.0"],
         pipeline_execution |->
            [phases_completed |->
                Cardinality({i \in 1..Len(results) : ~HasError(results[i].data)}),
             total_phases |-> Len(self.pipeline_phases),
             phase_details |->
                [p \in phases |->
                    [confidence |-> results[last(p)].confidence,
                     status |-> PhaseStatus(results[last(p)])]]],
         research_findings |-> synthesis_data,
         phase_results |->
            [p \in phases \ {"synthesis"} |-> results[last(p)].data],
         research_quality |-> Get(synthesis_data, "research_quality", EmptyDict),
         assumptions |-> Get(synthesis_data, "assumptions", <<>>),
         limitations |-> Get(synthesis_data, "limitations", <<>>),
         disclaimer |-> GetResearchDisclaimer]

\* _error_response(context, error_message)
PipelineErrorResponse(context, error_message) ==
    [research_metadata |->
        [research_id |-> context.research_id,
         query |-> context.query,
         assets_analyzed |-> context.assets,
         timestamp |-> context.timestamp,
         pipeline_version |-> "1.0.0"],
     error |-> PyTrue,
     message |-> "Research pipeline failed: " \o error_message,
     disclaimer |-> GetResearchDisclaimer]

-----------------------------------------------------------------------------
(* core/analyzer.py  MacroChainAnalyzer *)

GetDisclaimer ==
    "This analysis is for educational purposes only and does not constitute "
    \o "financial advice. Cryptocurrency markets are highly volatile and risky. "
    \o "Always conduct your own research and consult with qualified financial "
    \o "professionals before making any investment decisions."

AnalyzerErrorResponse(error_message) ==
    [error |-> PyTrue,
     message |-> "Analysis failed: " \o error_message,
     disclaimer |-> GetDisclaimer]

\* variant that also treats a report with a failed phase as a failed pipeline
PipelineFailedOrPartial(result) ==
    \/ HasError(result)
    \/ result.pipeline_execution.phases_completed
          < result.pipeline_execution.total_phases

\* `if pipeline_result.get("error")`
PipelineFailed(result) == HasError(result)

RECURSIVE Observations(_)
Observations(correlations) ==
    IF correlations = <<>> THEN <<>>
    ELSE <<Get(Head(correlations), "observation", "")>> \o Observations(Tail(correlations))

\* _format_pipeline_results; pipeline_result["research_metadata"] is a
\* subscript, and every pipeline result carries that key
FormatPipelineResults(result) ==
    LET research_findings == Get(result, "research_findings", EmptyDict)
        results == Get(result, "phase_results", EmptyDict)
        market_state == Get(research_findings, "overall_market_state", EmptyDict)
        correlations == Get(research_findings, "cross_phase_correlations", <<>>)
    IN  [query |-> result.research_metadata.query,
         assets_analyzed |-> result.research_metadata.assets_analyzed,
         timestamp |-> result.research_metadata.timestamp,
         market_conditions |->
            [overall_state |-> Get(market_state, "overall_state", "neutral"),
             key_factors |-> Get(market_state, "dominant_factors", <<>>),
             confidence_level |-> Get(research_findings, "confidence_level", "moderate")],
         macro_analysis |-> Get(results, "macro", EmptyDict),
         sentiment_analysis |-> Get(results, "sentiment", EmptyDict),
         onchain_analysis |-> Get(results, "onchain", EmptyDict),
         market_structure_analysis |-> Get(results, "market_structure", EmptyDict),
         key_themes |-> Observations(correlations),
         correlations |-> correlations,
         \* f"Comprehensive research analysis completed with {n} insights identified."
         educational_summary |->
            [text |-> "Comprehensive research analysis completed with {} insights identified.",
             total_insights |-> Get(research_findings, "total_insights", 0)],
         risk_factors |-> Get(result, "limitations", <<>>),
         research_quality |-> Get(research_findings, "research_quality", EmptyDict),
         disclaimer |-> Get(result, "disclaimer", GetDisclaimer)]

-----------------------------------------------------------------------------
(* services/research_formatter.py  ResearchFormatter *)

UpperChar(c) ==
    CASE c = "a" -> "A" [] c = "b" -> "B" [] c = "e" -> "E" [] OTHER -> c

IsLetter(c) == c \notin {Space, ","}

\* str.title(): a letter that follows a non-letter is upper-cased, every
\* other letter lower-cased
Title(s) ==
    [i \in 1..Len(s) |->
        IF i = 1 \/ ~IsLetter(s[i - 1]) THEN UpperChar(s[i]) ELSE LowerChar(s[i])]

\* ', '.join(assets)
RECURSIVE Join(_)
Join(assets) ==
    IF assets = <<>> THEN <<>>
    ELSE IF Len(assets) = 1 THEN Head(assets)
    ELSE Head(assets) \o <<",", Space>> \o Join(Tail(assets))

\* a value that is present and truthy (a non-empty str)
Present(d, k) == k \in DOMAIN d /\ d[k] # ""

FormatReportHeader(analysis_data, query, now) ==
    LET research_metadata == Get(analysis_data, "research_metadata", EmptyDict)
        assets == Get(research_metadata, "assets_analyzed", <<>>)
    IN  [title |-> "MACROCHAIN - CRYPTO MARKET RESEARCH REPORT",
         \* f"Analysis of {', '.join(assets).title()} Markets"
         subtitle |-> <<"Analysis of ", Title(Join(assets)), " Markets">>,
         research_query |-> query,
         publication_date |-> Get(research_metadata, "timestamp", now),
         report_id |-> Get(research_metadata, "research_id", "UNKNOWN"),
         version |-> "1.0",
         classification |-> "EDUCATIONAL RESEARCH"]

Methodology ==
    <<"Multi-dimensional market analysis framework",
      "Macroeconomic context assessment",
      "Market sentiment and psychology evaluation",
      "On-chain metrics analysis",
      "Market structure and risk context examination",
      "Cross-correlation synthesis">>

FormatResearchFocus(query, analysis_data) ==
    LET assets == Get(Get(analysis_data, "research_metadata", EmptyDict),
                      "assets_analyzed", <<>>)
    IN  [\* f"Comprehensive analysis of {...} market dynamics based on query: '{query}'"
         research_objective |->
            <<"Comprehensive analysis of ", Title(Join(assets)),
              " market dynamics based on query: '", query, "'">>,
         methodology |-> Methodology,
         scope |-> <<"Analysis covers ", Title(Join(assets)),
                     " with focus on educational market understanding">>,
         analytical_framework |->
            "Structured research pipeline with deterministic methodology",
         time_horizon |-> "Current market conditions with educational context"]

\* _format_section_error; section_name.upper() is written out
FormatSectionError(section_name) ==
    [section_title |->
        CASE section_name = "Macroeconomic Analysis" -> "MACROECONOMIC ANALYSIS"
          [] section_name = "Market Sentiment Analysis" -> "MARKET SENTIMENT ANALYSIS"
          [] section_name = "On-Chain Analysis" -> "ON-CHAIN ANALYSIS"
          [] section_name = "Market Structure Analysis" -> "MARKET STRUCTURE ANALYSIS",
     error |-> PyTrue,
     message |-> section_name \o " data unavailable",
     status |-> "section_failed",
     confidence_level |-> "low"]

RECURSIVE Tagged(_, _)
Tagged(tag, items) ==
    IF items = <<>> THEN <<>>
    ELSE <<tag \o Head(items)>> \o Tagged(tag, Tail(items))

FormatMacroContext(analysis_data) ==
    LET macro_data == Get(Get(analysis_data, "phase_results", EmptyDict), "macro", EmptyDict)
        overall_conditions == Get(macro_data, "overall_conditions", EmptyDict)
        liquidity_conditions == Get(macro_data, "liquidity_conditions", EmptyDict)
        rate_environment == Get(macro_data, "interest_rate_environment", EmptyDict)
        implications == Get(rate_environment, "implications", EmptyDict)
        key_factors == Get(overall_conditions, "key_factors", <<>>)
        context_points ==
            (IF Present(liquidity_conditions, "overall_status")
               THEN <<"Global liquidity conditions appear " \o liquidity_conditions.overall_status>>
               ELSE <<>>)
            \o (IF Present(implications, "overall")
               THEN <<"Interest rate environment presents " \o implications.overall \o " implications">>
               ELSE <<>>)
            \o (IF Present(overall_conditions, "overall")
               THEN <<"Overall macroeconomic conditions assessed as " \o overall_conditions.overall>>
               ELSE <<>>)
            \o Tagged("Key factor: ", Prefix(key_factors, 3))
    IN  IF HasError(macro_data) THEN FormatSectionError("Macroeconomic Analysis")
        ELSE
          [section_title |-> "MACRO CONTEXT",
           overall_assessment |-> Get(overall_conditions, "overall", "neutral"),
           key_observations |-> context_points,
           liquidity_analysis |->
              [status |-> Get(liquidity_conditions, "overall_status", "moderate"),
               trend |-> Get(liquidity_conditions, "trend", "stable"),
               key_considerations |-> Get(liquidity_conditions, "key_observations", <<>>)],
           monetary_policy_context |->
              [implications |-> Get(implications, "overall", "neutral"),
               trend |-> Get(rate_environment, "trend", "monitoring"),
               key_considerations |-> Get(rate_environment, "educational_context", <<>>)],
           risk_considerations |-> Get(macro_data, "educational_notes", <<>>),
           confidence_level |-> Get(macro_data, "confidence_level", "moderate")]

FormatMarketSentiment(analysis_data) ==
    LET sentiment_data == Get(Get(analysis_data, "phase_results", EmptyDict), "sentiment", EmptyDict)
        overall_sentiment == Get(sentiment_data, "overall_sentiment", EmptyDict)
        fear_greed == Get(sentiment_data, "fear_greed_index", EmptyDict)
        social_sentiment == Get(sentiment_data, "social_media_sentiment", EmptyDict)
        key_drivers == Get(overall_sentiment, "key_drivers", <<>>)
        sentiment_points ==
            (IF Present(overall_sentiment, "overall_sentiment")
               THEN <<"Overall market sentiment assessed as " \o overall_sentiment.overall_sentiment>>
               ELSE <<>>)
            \o (IF Present(fear_greed, "sentiment_level")
               THEN <<"Fear & Greed indicators show " \o fear_greed.sentiment_level \o " sentiment">>
               ELSE <<>>)
            \o (IF Present(social_sentiment, "overall_social_sentiment")
               THEN <<"Social media sentiment appears " \o social_sentiment.overall_social_sentiment>>
               ELSE <<>>)
            \o Tagged("Driver: ", Prefix(key_drivers, 3))
    IN  IF HasError(sentiment_data) THEN FormatSectionError("Market Sentiment Analysis")
        ELSE
          [section_title |-> "MARKET SENTIMENT",
           overall_assessment |-> Get(overall_sentiment, "overall_sentiment", "neutral"),
           sentiment_indicators |->
              [fear_greed_index |->
                  [level |-> Get(fear_greed, "sentiment_level", "neutral"),
                   interpretation |-> Prefix(Get(fear_greed, "educational_notes", <<>>), 2)],
               social_media |->
                  [overall |-> Get(social_sentiment, "overall_social_sentiment", "neutral"),
                   volume_trends |-> Get(social_sentiment, "volume_trends", "stable")],
               news_sentiment |->
                  Get(Get(sentiment_data, "news_sentiment", EmptyDict),
                      "media_bias_analysis", EmptyDict)],
           psychological_factors |-> sentiment_points,
           contrarian_signals |-> Get(overall_sentiment, "contrarian_signals", <<>>),
           confidence_level |-> Get(overall_sentiment, "confidence", "moderate")]

\* variant that stamps the section with the time of the analysis
FormatOnchainOverviewStamped(analysis_data) ==
    [section_title |-> "ON-CHAIN OVERVIEW",
     generated_at |-> Get(analysis_data, "timestamp", 0)]

FormatOnchainOverview(analysis_data) ==
    LET onchain_data == Get(Get(analysis_data, "phase_results", EmptyDict), "onchain", EmptyDict)
        network_conditions == Get(onchain_data, "network_conditions", EmptyDict)
        activity_metrics == Get(onchain_data, "network_activity", EmptyDict)
        holder_metrics == Get(onchain_data, "holder_behavior", EmptyDict)
        overall_activity == Get(activity_metrics, "overall_activity", EmptyDict)
        behavioral_insights == Get(holder_metrics, "behavioral_insights", EmptyDict)
        onchain_points ==
            (IF Present(network_conditions, "overall_status")
               THEN <<"Network health assessed as " \o network_conditions.overall_status>>
               ELSE <<>>)
            \o (IF Present(overall_activity, "trend")
               THEN <<"Network activity shows " \o overall_activity.trend \o " trend">>
               ELSE <<>>)
            \o (IF Present(behavioral_insights, "long_term_trend")
               THEN <<"Long-term holder behavior indicates " \o behavioral_insights.long_term_trend>>
               ELSE <<>>)
            \o Tagged("Strength: ", Prefix(Get(network_conditions, "strengths", <<>>), 2))
            \o Tagged("Concern: ", Prefix(Get(network_conditions, "concerns", <<>>), 2))
    IN  IF HasError(onchain_data) THEN FormatSectionError("On-Chain Analysis")
        ELSE
          [section_title |-> "ON-CHAIN OVERVIEW",
           network_health |-> Get(network_conditions, "overall_status", "moderate"),
           activity_trends |->
              [overall_trend |-> Get(overall_activity, "trend", "stable"),
               growth_indicators |-> Get(activity_metrics, "growth_indicators", <<>>),
               usage_patterns |-> Get(activity_metrics, "usage_patterns", EmptyDict)],
           holder_dynamics |->
              [distribution_trends |-> behavioral_insights,
               market_maturity |-> Get(holder_metrics, "market_maturity", "developing"),
               risk_indicators |-> Get(holder_metrics, "risk_indicators", <<>>)],
           fundamental_indicators |-> onchain_points,
           network_efficiency |->
              Get(Get(onchain_data, "transaction_metrics", EmptyDict),
                  "efficiency_metrics", EmptyDict),
           confidence_level |-> Get(network_conditions, "confidence_level", "moderate")]

FormatMarketStructure(analysis_data) ==
    LET structure_data == Get(Get(analysis_data, "phase_results", EmptyDict),
                              "market_structure", EmptyDict)
        structure_assessment == Get(structure_data, "structure_assessment", EmptyDict)
        market_phase == Get(structure_data, "market_phase", EmptyDict)
        volatility_regime == Get(structure_data, "volatility_regime", EmptyDict)
        liquidity_conditions == Get(structure_data, "liquidity_conditions", EmptyDict)
        risk_context == Get(structure_assessment, "risk_context", EmptyDict)
        structure_points ==
            (IF Present(structure_assessment, "structure_quality")
               THEN <<"Market structure quality assessed as " \o structure_assessment.structure_quality>>
               ELSE <<>>)
            \o (IF Present(market_phase, "current_phase")
               THEN <<"Current market phase identified as " \o market_phase.current_phase>>
               ELSE <<>>)
            \o (IF Present(volatility_regime, "current_regime")
               THEN <<"Volatility regime classified as " \o volatility_regime.current_regime>>
               ELSE <<>>)
            \o (IF Present(liquidity_conditions, "current_condition")
               THEN <<"Liquidity conditions are " \o liquidity_conditions.current_condition>>
               ELSE <<>>)
            \o (IF Present(risk_context, "overall_risk")
               THEN <<"Overall structural risk context: " \o risk_context.overall_risk>>
               ELSE <<>>)
    IN  IF HasError(structure_data) THEN FormatSectionError("Market Structure Analysis")
        ELSE
          [section_title |-> "MARKET STRUCTURE",
           structure_quality |-> Get(structure_assessment, "structure_quality", "moderate"),
           market_phase |->
              [current_phase |-> Get(market_phase, "current_phase", "uncertain"),
               confidence |-> Get(market_phase, "phase_confidence", "moderate"),
               characteristics |-> Get(market_phase, "phase_characteristics", EmptyDict),
               transition_risks |-> Get(market_phase, "transition_risks", <<>>)],
           volatility_regime |->
              [current_regime |-> Get(volatility_regime, "current_regime", "medium"),
               stability |-> Get(volatility_regime, "regime_stability", "moderate"),
               characteristics |-> Get(volatility_regime, "regime_characteristics", EmptyDict),
               risk_implications |-> Get(volatility_regime, "risk_implications", <<>>)],
           liquidity_analysis |->
              [condition |-> Get(liquidity_conditions, "current_condition", "moderate"),
               stability |-> Get(liquidity_conditions, "condition_stability", "moderate"),
               characteristics |-> Get(liquidity_conditions, "condition_characteristics", EmptyDict),
               execution_considerations |-> Get(liquidity_conditions, "execution_considerations", <<>>)],
           structural_assessment |-> structure_points,
           risk_context |-> risk_context,
           confidence_level |-> "moderate"]

RECURSIVE CorrelationInsights(_)
CorrelationInsights(correlations) ==
    IF correlations = <<>> THEN <<>>
    ELSE (IF Present(Head(correlations), "observation")
            THEN <<[type |-> "cross_phase_correlation",
                    insight |-> Head(correlations).observation,
                    strength |-> Get(Head(correlations), "strength", "moderate"),
                    phases |-> Get(Head(correlations), "phases", <<>>)]>>
            ELSE <<>>)
         \o CorrelationInsights(Tail(correlations))

RECURSIVE SynthesisInsights(_, _)
SynthesisInsights(type, insights) ==
    IF insights = <<>> THEN <<>>
    ELSE <<[type |-> type, insight |-> Head(insights),
            strength |-> "moderate", phases |-> <<"synthesis">>]>>
         \o SynthesisInsights(type, Tail(insights))

CountType(items, field, type) ==
    Cardinality({i \in 1..Len(items) : items[i][field] = type})

FormatKeyInsights(analysis_data) ==
    LET research_findings == Get(analysis_data, "research_findings", EmptyDict)
        correlations == Get(research_findings, "cross_phase_correlations", <<>>)
        key_insights == Get(research_findings, "key_insights", <<>>)
        market_state == Get(research_findings, "overall_market_state", EmptyDict)
        all_insights ==
            CorrelationInsights(correlations)
            \o SynthesisInsights("key_insight", key_insights)
            \o SynthesisInsights("market_state_factor",
                                 Get(market_state, "dominant_factors", <<>>))
    IN  [section_title |-> "KEY INSIGHTS",
         total_insights |-> Len(all_insights),
         insight_categories |->
            [cross_phase_correlations |-> CountType(all_insights, "type", "cross_phase_correlation"),
             market_state_factors |-> CountType(all_insights, "type", "market_state_factor"),
             synthesis_insights |-> CountType(all_insights, "type", "key_insight")],
         insights |-> Prefix(all_insights, TopInsights),
         confidence_level |-> Get(research_findings, "confidence_level", "moderate"),
         research_quality |-> Get(research_findings, "research_quality", EmptyDict)]

RECURSIVE RiskItems(_, _, _)
RiskItems(category, mitigation, risks) ==
    IF risks = <<>> THEN <<>>
    ELSE <<[category |-> category, risk |-> Head(risks), mitigation |-> mitigation]>>
         \o RiskItems(category, mitigation, Tail(risks))

StandardRisks ==
    <<"Cryptocurrency market volatility and price fluctuations",
      "Regulatory uncertainty and policy changes",
      "Technology and security risks including hacks and vulnerabilities",
      "Liquidity risks and market manipulation potential",
      "Correlation risks with traditional financial markets">>

FormatRisksUncertainty(analysis_data) ==
    LET limitations == Get(analysis_data, "limitations", <<>>)
        assumptions == Get(analysis_data, "assumptions", <<>>)
        risk_factors ==
            RiskItems("methodological_limitation",
                      "Recognize limitation in interpretation", limitations)
            \o RiskItems("analytical_assumption",
                         "Validate assumption with additional research", assumptions)
            \o RiskItems("market_risk",
                         "Comprehensive risk management and diversification", StandardRisks)
    IN  [section_title |-> "KEY RISKS & UNCERTAINTY",
         risk_categories |->
            [methodological_limitations |-> CountType(risk_factors, "category", "methodological_limitation"),
             analytical_assumptions |-> CountType(risk_factors, "category", "analytical_assumption"),
             market_risks |-> CountType(risk_factors, "category", "market_risk")],
         risk_factors |-> Prefix(risk_factors, TopRisks),
         uncertainty_level |-> "moderate_to_high",
         research_limitations |-> limitations,
         key_assumptions |-> assumptions,
         confidence_caveats |->
            <<"Analysis based on educational frameworks, not real-time data",
              "Market conditions can change rapidly and unpredictably",
              "Historical patterns may not repeat in future conditions",
              "Multiple factors influence cryptocurrency market dynamics">>]

\* success_rate (a percentage text of phases_completed / total_phases) is
\* kept as the two numbers it is computed from
FormatReportMetadata(analysis_data, now) ==
    LET research_metadata == Get(analysis_data, "research_metadata", EmptyDict)
        pipeline_execution == Get(analysis_data, "pipeline_execution", EmptyDict)
        research_quality ==
            Get(Get(analysis_data, "research_findings", EmptyDict),
                "research_quality", EmptyDict)
    IN  [research_metadata |->
            [report_id |-> Get(research_metadata, "research_id", "UNKNOWN"),
             query |-> Get(research_metadata, "query", <<>>),
             assets_analyzed |-> Get(research_metadata, "assets_analyzed", <<>>),
             timestamp |-> Get(research_metadata, "timestamp", now),
             execution_time_seconds |-> Get(research_metadata, "total_execution_time", 0),
             pipeline_version |-> Get(research_metadata, "pipeline_version", "1.0.0")],
         execution_summary |->
            [phases_completed |-> Get(pipeline_execution, "phases_completed", 0),
             total_phases |-> Get(pipeline_execution, "total_phases", 0)],
         quality_metrics |-> research_quality,
         data_sources |-> "Educational and conceptual frameworks",
         analytical_approach |->
            "Structured research pipeline with deterministic methodology",
         report_classification |-> "EDUCATIONAL RESEARCH - NOT FINANCIAL ADVICE"]

GetProfessionalDisclaimer ==
    "**DISCLAIMER**\n\n"
    \o "This research report is for **EDUCATIONAL AND INFORMATIONAL PURPOSES ONLY**. "
    \o "It does **NOT** constitute financial advice, investment recommendations, "
    \o "trading signals, or price predictions.\n\n"
    \o "**RISK WARNING:** Cryptocurrency markets are **HIGHLY VOLATILE AND RISKY**. "
    \o "Prices can fluctuate dramatically, and you may lose ALL of your invested capital.\n\n"
    \o "**NO INVESTMENT ADVICE:** This analysis is designed to help you UNDERSTAND market dynamics, "
    \o "NOT to tell you when to buy, sell, or hold any cryptocurrency.\n\n"
    \o "**DO YOUR OWN RESEARCH:** Always conduct your own thorough research and consult with "
    \o "qualified financial professionals before making any investment decisions.\n\n"
    \o "**PAST PERFORMANCE:** Past performance does not indicate future results. "
    \o "Historical patterns may not repeat in current or future market conditions.\n\n"
    \o "**MARKET UNCERTAINTY:** Cryptocurrency markets are inherently unpredictable and "
    \o "subject to numerous risks including regulatory changes, technological failures, "
    \o "and market manipulation.\n\n"
    \o "By reading this report, you acknowledge that you understand these risks and "
    \o "agree that this information is for educational purposes only."

\* variant whose error answer has the layout of a report
FormatterErrorReport(query, error_message, now) ==
    [error |-> PyTrue,
     message |-> "Research report formatting failed: " \o error_message,
     report_header |-> [title |-> "ERROR", publication_date |-> now],
     research_focus |-> [research_objective |-> query],
     disclaimer |-> GetProfessionalDisclaimer,
     timestamp |-> now]

FormatterErrorResponse(query, error_message, now) ==
    [error |-> PyTrue,
     message |-> "Research report formatting failed: " \o error_message,
     disclaimer |-> GetProfessionalDisclaimer,
     timestamp |-> now]

\* variant whose macro section quotes the request
FormatResearchReportQuoting(analysis_data, user_query, now, raised) ==
    [report_header |-> FormatReportHeader(analysis_data, user_query, now),
     research_focus |-> FormatResearchFocus(user_query, analysis_data),
     macro_context |->
        [section_title |-> "Macro Context",
         query |-> user_query,
         assets |-> Get(analysis_data, "assets_analyzed", <<>>)],
     key_insights |-> FormatKeyInsights(analysis_data),
     disclaimer |-> GetProfessionalDisclaimer]

\* format_research_report: `raised` is an exception thrown inside its try
FormatResearchReport(analysis_data, user_query, now, raised) ==
    IF raised THEN FormatterErrorResponse(user_query, "runtime error", now)
    ELSE
      [report_header |-> FormatReportHeader(analysis_data, user_query, now),
       research_focus |-> FormatResearchFocus(user_query, analysis_data),
       macro_context |-> FormatMacroContext(analysis_data),
       market_sentiment |-> FormatMarketSentiment(analysis_data),
       onchain_overview |-> FormatOnchainOverview(analysis_data),
       market_structure |-> FormatMarketStructure(analysis_data),
       key_insights |-> FormatKeyInsights(analysis_data),
       risks_uncertainty |-> FormatRisksUncertainty(analysis_data),
       disclaimer |-> GetProfessionalDisclaimer,
       report_metadata |-> FormatReportMetadata(analysis_data, now)]

-----------------------------------------------------------------------------
(* config/settings.py *)

\* values of api_version: the default, and one set through the environment
ApiVersions == {"1.0.0", "2.1.0"}

\* Settings(): the API fields, api_version as configured
Settings(version) ==
    [api_host |-> "0.0.0.0",
     api_port |-> 8000,
     api_title |-> "MacroChain AI API",
     api_description |-> "AI-powered crypto market analysis agent",
     api_version |-> version]

\* variant that answers with the default version whatever is configured
GetApiConfigDefaultVersion(config) ==
    [host |-> config.api_host,
     port |-> config.api_port,
     title |-> config.api_title,
     description |-> config.api_description,
     version |-> "1.0.0"]

GetApiConfig(config) ==
    [host |-> config.api_host,
     port |-> config.api_port,
     title |-> config.api_title,
     description |-> config.api_description,
     version |-> config.api_version]

-----------------------------------------------------------------------------
(* api/app.py *)

\* variant that reads the disclaimer under a key the report does not have
ReportDisclaimerWrongKey(report) == Get(report, "legal_disclaimer", "")

\* research_report.get("disclaimer", "")
ReportDisclaimer(report) == Get(report, "disclaimer", "")

RECURSIVE Field(_, _)
Field(items, f) ==
    IF items = <<>> THEN <<>> ELSE <<Head(items)[f]>> \o Field(Tail(items), f)

\* _convert_to_api_response: research_report["report_header"] and
\* ["research_focus"] are subscripts; a report without them raises KeyError
ConvertToApiResponse(report, query) ==
    IF "report_header" \notin DOMAIN report THEN Raise("'report_header'")
    ELSE IF "research_focus" \notin DOMAIN report THEN Raise("'research_focus'")
    ELSE Return(
      [query |-> query,
       timestamp |-> report.report_header.publication_date,
       \* f"{title} - {research_objective}"
       summary |-> <<report.report_header.title, " - ",
                     report.research_focus.research_objective>>,
       market_conditions |->
          [overall_state |-> "neutral",
           key_factors |-> <<>>,
           confidence_level |-> "moderate"],
       analysis_sections |->
          [macroeconomic |-> Get(report, "macro_context", EmptyDict),
           sentiment |-> Get(report, "market_sentiment", EmptyDict),
           onchain |-> Get(report, "onchain_overview", EmptyDict),
           market_structure |-> Get(report, "market_structure", EmptyDict)],
       key_insights |->
          Field(Get(Get(report, "key_insights", EmptyDict), "insights", <<>>), "insight"),
       risk_factors |->
          Field(Get(Get(report, "risks_uncertainty", EmptyDict), "risk_factors", <<>>), "risk"),
       \* "\n".join(methodology)
       educational_context |->
          Get(Get(report, "research_focus", EmptyDict), "methodology", <<>>),
       disclaimer |-> ReportDisclaimer(report),
       metadata |-> Get(report, "report_metadata", EmptyDict)])

\* variant of the query check that measures the query as sent
QueryRejectedUntrimmed(query) == query = <<>> \/ Len(query) < MinQueryLen

\* variant of the query check that lets a two-character query through
QueryRejectedOffByOne(query) == query = <<>> \/ Len(Strip(query)) < MinQueryLen - 1

\* `not request.query or len(request.query.strip()) < 3`
QueryRejected(query) == query = <<>> \/ Len(Strip(query)) < MinQueryLen

\* variant of the size check that counts the entries that are not blank
TooManyAssetsNotBlank(assets) ==
    /\ Truthy(assets)
    /\ Len(SelectSeq(assets.list, LAMBDA asset : Strip(asset) # <<>>)) > MaxAssetsAllowed

\* variant of the size check that lets an eleventh entry through
TooManyAssetsOffByOne(assets) == Truthy(assets) /\ Len(assets.list) > MaxAssetsAllowed + 1

\* `if request.assets: if len(request.assets) > 10`
TooManyAssets(assets) == Truthy(assets) /\ Len(assets.list) > MaxAssetsAllowed

\* variant of the comprehension without its `if asset.strip()`
NormalizeAssetsKeepingBlanks(assets) ==
    [i \in 1..Len(assets) |-> Strip(Lower(assets[i]))]

\* `[asset.lower().strip() for asset in request.assets if asset.strip()]`
NormalizeAssets(assets) ==
    LET chosen == SelectSeq(assets, LAMBDA asset : Strip(asset) # <<>>)
    IN  [i \in 1..Len(chosen) |-> Strip(Lower(chosen[i]))]

\* HTTP responses: none yet, raise HTTPException(code, detail), return body
NoResp == [status |-> 0]

HttpError(code, detail) == [status |-> code, detail |-> detail]
HttpOk(body) == [status |-> 200, body |-> body]

\* GET /: root()
Root(config) ==
    [message |-> "MacroChain AI - Cryptocurrency Market Analysis API",
     description |-> "Educational crypto market analysis without financial advice",
     version |-> config.version,
     docs |-> "/docs",
     health |-> "/health"]

\* GET /health: the HealthResponse built in the try block of health_check
HealthCheck(config, now) ==
    [status |-> "healthy",
     timestamp |-> now,
     version |-> config.version,
     components |->
        [analyzer |-> "healthy", formatter |-> "healthy", api |-> "healthy"]]

InfoCapabilities ==
    <<"Deep research pipeline with deterministic methodology",
      "Macroeconomic analysis with liquidity and policy context",
      "Market sentiment assessment with volatility and momentum",
      "On-chain dynamics analysis with network fundamentals",
      "Market structure analysis with trading context",
      "Cross-phase correlation and synthesis",
      "Professional research report generation",
      "Risk assessment and uncertainty quantification">>

InfoLimitations ==
    <<"Educational purposes only - no financial advice",
      "No price predictions or trading signals",
      "Conceptual analysis framework, not real-time data",
      "Research-grade methodology with documented limitations",
      "Market complexity exceeds analytical frameworks",
      "Unforeseen events can invalidate current analysis">>

\* variant that lists only the capabilities the configuration enables
GetInfoByConfig(config) ==
    [name |-> "MacroChain AI",
     capabilities |->
        IF config.version = "1.0.0" THEN InfoCapabilities
        ELSE SubSeq(InfoCapabilities, 1, 5),
     limitations |-> InfoLimitations,
     version |-> config.version]

\* GET /info: the dict returned by get_info
GetInfo(config) ==
    [name |-> "MacroChain AI",
     description |-> "AI-powered cryptocurrency market analysis agent",
     purpose |-> "Educational market analysis without financial advice",
     capabilities |-> InfoCapabilities,
     supported_assets |-> <<"bitcoin", "ethereum", "major cryptocurrencies">>,
     analysis_types |-> <<"macroeconomic", "sentiment", "onchain", "combined">>,
     limitations |-> InfoLimitations,
     disclaimer |->
        "MacroChain AI provides research-grade cryptocurrency market analysis "
        \o "for educational purposes only. It does not provide financial advice, "
        \o "trading signals, or price predictions. Cryptocurrency markets are "
        \o "highly volatile and risky. Always conduct your own research and "
        \o "consult with qualified financial professionals.",
     version |-> config.version,
     endpoints |->
        [analyze |-> "POST /analyze - Perform market analysis",
         health |-> "GET /health - Check system health",
         info |-> "GET /info - Get API information",
         docs |-> "GET /docs - API documentation"]]

\* paths with a GET route: the three handlers and the documentation pages
\* FastAPI adds
GetRoutes == {"/", "/health", "/info", "/docs", "/redoc", "/openapi.json"}

\* not_found_handler: the value it returns for HTTPException(404)
NotFoundHandler(path, now) ==
    [error |-> "Endpoint not found",
     message |-> <<"The requested endpoint ", path, " does not exist">>,
     available_endpoints |-> <<"/", "/health", "/analyze", "/info", "/docs">>,
     timestamp |-> now]

\* internal_error_handler: the value it returns for an unhandled exception
InternalErrorHandler(now) ==
    [error |-> "Internal server error",
     message |-> "An unexpected error occurred while processing your request.",
     timestamp |-> now]

\* whether a value returned by an exception handler is a Response object,
\* which the framework can send; a plain dict is not
IsResponse(value) == "status_code" \in DOMAIN value

\* The framework awaits the registered handler and calls what it returns as
\* the response.  Calling a dict raises TypeError, which goes to the handler
\* registered for 500; when that returns a dict too, the server answers
\* with its own 500
SendHandled(first, second) ==
    IF IsResponse(first)
      THEN [status |-> first.status_code, body |-> first.content]
    ELSE IF IsResponse(second)
      THEN [status |-> second.status_code, body |-> second.content]
    ELSE HttpError(500, "Internal Server Error")

-----------------------------------------------------------------------------
(* Requests sent to POST /analyze *)

\* "a"s, bare or with one blank on either side
Queries ==
    {Rep(Space, p) \o Rep("a", m) \o Rep(Space, p) :
        <<p, m>> \in {t \in (0..1) \X (0..MaxQueryLen) : 2 * t[1] + t[2] <= MaxQueryLen}}

AssetStrings == {<<Space>>, <<Space, "B">>, <<"a">>}

\* lists of distinct entries
ShortLists ==
    UNION {{l \in [1..n -> AssetStrings] :
               \A i, j \in 1..n : l[i] = l[j] => i = j} : n \in 0..MaxShortAssets}

LongLists ==
    {Rep(f, n) : <<f, n>> \in {<<Space>>, <<"a">>} \X (MaxAssetsAllowed..MaxAssetEntries)}

AssetInputs == {NoneAssets} \cup {SomeAssets(l) : l \in ShortLists \cup LongLists}

-----------------------------------------------------------------------------
(* State machine *)

\* attributes set by the constructors of the module-level objects
InitObjs ==
    [analyzer |-> [research_pipeline |-> [pipeline_phases |-> PipelinePhases]],
     research_formatter |->
        [report_sections |->
            <<"header", "research_focus", "macro_context", "market_sentiment",
              "onchain_overview", "market_structure", "key_insights",
              "risks_uncertainty", "disclaimer">>]]

\* str(e) of an exception that some call of the step threw
RuntimeError == "runtime error"

\* str(e) of the UnboundLocalError for `context` at research_pipeline.py 133
UnboundContext == "local variable 'context' referenced before assignment"

\* variant in which the loop consumes the phase list it walks
PipelineConsumesPhase(self) ==
    [self EXCEPT !.pipeline_phases = SubSeq(@, 1, Len(@) - 1)]

\* what a turn of the loop of execute_research leaves in the attributes of
\* the pipeline instance: it reads self.pipeline_phases and assigns nothing
PipelineAfterPhase(self) == self

\* what format_research_report leaves in the formatter instance
FormatterAfterReport(self) == self

\* a step of the handler: whether the runtime threw in it, and whether it
\* ended in an error
Step(component, thrown, error) ==
    [component |-> component, thrown |-> thrown, error |-> error]

\* the start of the pipeline, with the ResearchContext it built
ContextStep(context) ==
    [component |-> "analyzer", thrown |-> FALSE, error |-> FALSE,
     context |-> context]

\* the synthesis step, with what _synthesize_analyses computed
SynthesisStep(thrown, data) ==
    [component |-> "synthesis", thrown |-> thrown, error |-> HasError(data),
     data |-> data]

Init ==
    /\ pc = "idle"
    /\ req = [query |-> <<>>, assets |-> NoneAssets]
    /\ handed = NoneAssets
    /\ ctx = EmptyDict
    /\ idx = 0
    /\ phase_results = <<>>
    /\ pipeline_result = EmptyDict
    /\ analysis_result = EmptyDict
    /\ research_report = EmptyDict
    /\ resp = NoResp
    /\ objs = InitObjs
    /\ clock = 0
    /\ faults = 0
    /\ trace = <<>>
    /\ warm = FALSE
    /\ settings \in {Settings(version) : version \in ApiVersions}
    /\ api_config = GetApiConfig(settings)

\* a POST /analyze arrives
Receive(query, assets) ==
    /\ pc = "idle"
    /\ pc' = "validate"
    /\ req' = [query |-> query, assets |-> assets]
    /\ UNCHANGED <<handed, ctx, idx, phase_results, pipeline_result,
                   analysis_result, research_report, resp, objs, clock,
                   faults, trace, warm,
                   settings, api_config>>

\* the handler raises HTTPException or returns: its locals are gone
Respond(response) ==
    /\ resp' = response
    /\ pc' = "done"
    /\ analysis_result' = EmptyDict
    /\ research_report' = EmptyDict

\* the response has been sent; the process waits for the next request
Finish ==
    /\ pc \in {"done", "served"}
    /\ pc' = "idle"
    /\ req' = [query |-> <<>>, assets |-> NoneAssets]
    /\ handed' = NoneAssets
    /\ resp' = NoResp
    /\ faults' = 0
    /\ trace' = <<>>
    /\ warm' = TRUE
    /\ UNCHANGED <<ctx, idx, phase_results, pipeline_result, analysis_result,
                   research_report, objs, clock, settings, api_config>>

\* analyze_market, lines 134-152
Validate ==
    /\ pc = "validate"
    /\ trace' = Append(trace, Step("validate", FALSE, FALSE))
    /\ IF QueryRejected(req.query)
         THEN /\ Respond(HttpError(400, "Query must be at least 3 characters long"))
              /\ UNCHANGED handed
         ELSE IF TooManyAssets(req.assets)
         THEN /\ Respond(HttpError(400, "Maximum 10 assets allowed per request"))
              /\ UNCHANGED handed
         ELSE /\ handed' = IF Truthy(req.assets)
                             THEN SomeAssets(NormalizeAssets(req.assets.list))
                             ELSE NoneAssets
              /\ pc' = "research"
              /\ UNCHANGED <<resp, analysis_result, research_report>>
    /\ UNCHANGED <<req, ctx, idx, phase_results, pipeline_result,
                   objs, clock, faults, warm,
                   settings, api_config>>

MayRaise(raised) ==
    /\ raised => faults < MaxFaults
    /\ faults' = IF raised THEN faults + 1 ELSE faults

\* datetime.utcnow(): the time read is the last one read or a later one
Reads(now) ==
    /\ now \in clock..MaxClock
    /\ clock' = now

\* analyzer.analyze -> execute_research, lines 91-110.  An exception before
\* `context` is bound makes the handler at line 133 raise UnboundLocalError:
\* execute_research ends by raising to MacroChainAnalyzer.analyze
StartResearch(id, now, raised) ==
    /\ pc = "research"
    /\ MayRaise(raised)
    /\ Reads(now)
    /\ trace' = Append(trace,
                 IF raised THEN Step("analyzer", TRUE, TRUE)
                 ELSE ContextStep(NewContext(req.query, handed, now, id)))
    /\ IF raised
         THEN /\ pipeline_result' = Raise(UnboundContext)
              /\ pc' = "formatted"
              /\ UNCHANGED <<ctx, idx>>
         ELSE /\ ctx' = NewContext(req.query, handed, now, id)
              /\ idx' = 1
              /\ pc' = "phases"
              /\ UNCHANGED pipeline_result
    /\ UNCHANGED <<req, handed, phase_results, analysis_result,
                   research_report, resp, objs, warm,
                   settings, api_config>>

\* one turn of `for phase in self.pipeline_phases`, lines 112-119; the
\* analyzers stamp their results with the time last read
RunPhase(raised) ==
    LET self == objs.analyzer.research_pipeline
        phase == self.pipeline_phases[idx]
        result == IF phase = "synthesis"
                    THEN ExecuteSynthesisPhase(ctx, phase_results, raised)
                    ELSE ExecuteAnalysisPhase(phase, ctx, clock, raised)
    IN  /\ pc = "phases"
        /\ idx <= Len(self.pipeline_phases)
        /\ MayRaise(raised)
        /\ trace' = Append(trace,
                     IF phase = "synthesis"
                       THEN SynthesisStep(raised, result.data)
                       ELSE Step(phase, raised, HasError(result.data)))
        /\ phase_results' = Append(phase_results, result)
        /\ idx' = idx + 1
        /\ objs' = [objs EXCEPT !.analyzer.research_pipeline = PipelineAfterPhase(@)]
        /\ UNCHANGED <<pc, req, handed, ctx, pipeline_result, analysis_result,
                       research_report, resp, clock, warm,
                   settings, api_config>>

\* execute_research, lines 121-133: the report is compiled, or the except
\* clause answers with _error_response(context, str(e)); the call returns
Compile(raised) ==
    LET self == objs.analyzer.research_pipeline
    IN  /\ pc = "phases"
        /\ idx > Len(self.pipeline_phases)
        /\ MayRaise(raised)
        /\ pipeline_result' =
              IF raised THEN PipelineErrorResponse(ctx, RuntimeError)
              ELSE CompileResearchReport(self, ctx, phase_results)
        /\ trace' = Append(trace, Step("compile", raised, raised))
        /\ ctx' = EmptyDict
        /\ idx' = 0
        /\ phase_results' = <<>>
        /\ pc' = "formatted"
        /\ UNCHANGED <<req, handed, analysis_result, research_report, resp,
                       objs, clock, warm,
                   settings, api_config>>

\* MacroChainAnalyzer.analyze, lines 54-65; the call returns.  What
\* execute_research raised is caught by the except clause at lines 63-65
AnalyzerReturn(raised) ==
    /\ pc = "formatted"
    /\ MayRaise(raised)
    /\ analysis_result' =
          IF Get(pipeline_result, "raised", FALSE) = TRUE
            THEN AnalyzerErrorResponse(pipeline_result.msg)
          ELSE IF PipelineFailed(pipeline_result)
            THEN AnalyzerErrorResponse(Get(pipeline_result, "message", "Pipeline failed"))
          ELSE IF raised THEN AnalyzerErrorResponse(RuntimeError)
          ELSE FormatPipelineResults(pipeline_result)
    /\ trace' = Append(trace, Step("results", raised, HasError(analysis_result')))
    /\ pipeline_result' = EmptyDict
    /\ pc' = "check"
    /\ UNCHANGED <<req, handed, ctx, idx, phase_results, research_report,
                   resp, objs, clock, warm,
                   settings, api_config>>

\* variant that answers a failed analysis with the status of a bad request
CheckAnalysisAsBadRequest ==
    /\ pc = "check"
    /\ IF HasError(analysis_result)
         THEN Respond(HttpError(400,
                 "Analysis failed: " \o Get(analysis_result, "message", "Unknown error")))
         ELSE /\ pc' = "format"
              /\ UNCHANGED <<resp, analysis_result, research_report>>
    /\ UNCHANGED <<req, handed, ctx, idx, phase_results, pipeline_result,
                   objs, clock, faults, trace, warm,
                   settings, api_config>>

\* analyze_market, lines 157-162
CheckAnalysis ==
    /\ pc = "check"
    /\ IF HasError(analysis_result)
         THEN Respond(HttpError(500,
                 "Analysis failed: " \o Get(analysis_result, "message", "Unknown error")))
         ELSE /\ pc' = "format"
              /\ UNCHANGED <<resp, analysis_result, research_report>>
    /\ UNCHANGED <<req, handed, ctx, idx, phase_results, pipeline_result,
                   objs, clock, faults, trace, warm,
                   settings, api_config>>

\* analyze_market, lines 164-168
Format(now, raised) ==
    /\ pc = "format"
    /\ MayRaise(raised)
    /\ Reads(now)
    /\ research_report' =
          FormatResearchReport(analysis_result, req.query, now, raised)
    /\ trace' = Append(trace, Step("formatter", raised, HasError(research_report')))
    /\ objs' = [objs EXCEPT !.research_formatter = FormatterAfterReport(@)]
    /\ pc' = "convert"
    /\ UNCHANGED <<req, handed, ctx, idx, phase_results, pipeline_result,
                   analysis_result, resp, warm,
                   settings, api_config>>

\* analyze_market, lines 170-183: the converted report is returned, or the
\* exception becomes a 500
Convert(raised) ==
    LET converted == ConvertToApiResponse(research_report, req.query)
    IN  /\ pc = "convert"
        /\ MayRaise(raised)
        /\ trace' = Append(trace, Step("convert", raised, converted.raised \/ raised))
        /\ Respond(IF converted.raised
                     THEN HttpError(500, "Internal server error during analysis: "
                                         \o converted.msg)
                   ELSE IF raised
                     THEN HttpError(500, "Internal server error during analysis: "
                                         \o RuntimeError)
                   ELSE HttpOk(converted.value))
        /\ UNCHANGED <<req, handed, ctx, idx, phase_results, pipeline_result,
                       objs, clock, warm,
                   settings, api_config>>

\* a GET request is answered; the handlers touch nothing of POST /analyze
Serve(path, response) ==
    /\ pc = "idle"
    /\ pc' = "served"
    /\ req' = [path |-> path]
    /\ resp' = response
    /\ UNCHANGED <<handed, ctx, idx, phase_results, pipeline_result,
                   analysis_result, research_report, objs, trace, warm,
                   settings, api_config>>

\* GET /
GetRoot ==
    /\ Serve("/", HttpOk(Root(api_config)))
    /\ UNCHANGED <<clock, faults>>

\* GET /health: health_check, lines 97-114
GetHealth(now, raised) ==
    /\ MayRaise(raised)
    /\ Reads(now)
    /\ Serve("/health",
             IF raised THEN HttpError(500, "Health check failed")
             ELSE HttpOk(HealthCheck(api_config, now)))

\* GET /info: get_info, lines 194-248
GetInfoRequest(raised) ==
    /\ MayRaise(raised)
    /\ Serve("/info",
             IF raised
               THEN HttpError(500, "Failed to retrieve API information: "
                                   \o RuntimeError)
             ELSE HttpOk(GetInfo(api_config)))
    /\ UNCHANGED clock

\* paths requested that have no route
UnknownPaths == {"/missing"}

\* GET of a path without route: the router raises HTTPException(404), for
\* which not_found_handler is registered (app.py 289)
GetUnknown(path, first, second) ==
    /\ path \notin GetRoutes
    /\ first \in clock..MaxClock
    /\ second \in first..MaxClock
    /\ clock' = second
    /\ Serve(path, SendHandled(NotFoundHandler(path, first),
                               InternalErrorHandler(second)))
    /\ UNCHANGED faults

Next ==
    \/ \E query \in Queries, assets \in AssetInputs : Receive(query, assets)
    \/ Validate
    \/ Finish
    \/ \E id \in ResearchIds, now \in 0..MaxClock, raised \in BOOLEAN :
          StartResearch(id, now, raised)
    \/ \E raised \in BOOLEAN : RunPhase(raised)
    \/ \E raised \in BOOLEAN : Compile(raised)
    \/ \E raised \in BOOLEAN : AnalyzerReturn(raised)
    \/ CheckAnalysis
    \/ \E now \in 0..MaxClock, raised \in BOOLEAN : Format(now, raised)
    \/ \E raised \in BOOLEAN : Convert(raised)
    \/ GetRoot
    \/ \E now \in 0..MaxClock, raised \in BOOLEAN : GetHealth(now, raised)
    \/ \E raised \in BOOLEAN : GetInfoRequest(raised)
    \/ \E path \in UnknownPaths, first \in 0..MaxClock, second \in 0..MaxClock :
          GetUnknown(path, first, second)

Spec == Init /\ [][Next]_vars

-----------------------------------------------------------------------------
(* _assess_overall_market_state on phase outputs of every kind *)

\* labels a phase can report: the six the synthesis counts, and two others
StateLabels ==
    {"positive", "supportive", "strong", "negative", "challenging", "weak",
     "neutral", "mixed"}

\* outputs of a phase: none, the error shape, without the assessment, with
\* an assessment without label, with a label under `inner` of `outer`
PhaseOutputs(outer, inner) ==
    {EmptyDict,
     [error |-> PyTrue, message |-> "analysis failed"],
     [insights |-> <<>>],
     [k \in {outer} |-> [confidence |-> "moderate"]]}
    \cup {[k \in {outer} |-> [j \in {inner} |-> label]] : label \in StateLabels}

StateInit ==
    /\ pc = "assess"
    /\ req = [query |-> <<>>, assets |-> NoneAssets]
    /\ handed = NoneAssets
    /\ ctx = EmptyDict
    /\ idx = 0
    /\ \E macro \in PhaseOutputs("overall_conditions", "overall"),
          sentiment \in PhaseOutputs("overall_sentiment", "overall_sentiment"),
          onchain \in PhaseOutputs("network_conditions", "overall_status"),
          structure \in PhaseOutputs("market_phase", "overall_bias") :
            phase_results = <<PhaseResult("macro", macro),
                              PhaseResult("sentiment", sentiment),
                              PhaseResult("onchain", onchain),
                              PhaseResult("market_structure", structure)>>
    /\ pipeline_result = EmptyDict
    /\ analysis_result = EmptyDict
    /\ research_report = EmptyDict
    /\ resp = NoResp
    /\ objs = InitObjs
    /\ clock = 0
    /\ faults = 0
    /\ trace = <<>>
    /\ warm = FALSE
    /\ settings = Settings("1.0.0")
    /\ api_config = GetApiConfig(settings)

\* _execute_synthesis_phase and _synthesize_analyses: the phase data are
\* looked up and handed to _assess_overall_market_state
AssessState ==
    /\ pc = "assess"
    /\ pc' = "assessed"
    /\ pipeline_result' =
          [overall_market_state |->
              AssessOverallMarketState(GetPhaseData(phase_results, "macro"),
                                       GetPhaseData(phase_results, "sentiment"),
                                       GetPhaseData(phase_results, "onchain"),
                                       GetPhaseData(phase_results, "market_structure"))]
    /\ UNCHANGED <<req, handed, ctx, idx, phase_results, analysis_result,
                   research_report, resp, objs, clock, faults, trace, warm,
                   settings, api_config>>

StateNext == AssessState

StateSpec == StateInit /\ [][StateNext]_vars

-----------------------------------------------------------------------------
(* The synthesis, the report and the response on phase outputs of every    *)
(* kind: execute_research from the synthesis phase on, then the rest of    *)
(* analyze_market                                                          *)

\* n items of a phase, told apart by the phase and their position
Items(tag, n) == [i \in 1..n |-> tag \o "-" \o ToString(i)]

\* outputs of a phase: none, the error shape (with insights it must not
\* contribute), and results with 0..MaxPhaseInsights insights, the longest
\* also with limitations and assumptions of its own
SynthOutputs(tag) ==
    {EmptyDict,
     [error |-> PyTrue, message |-> tag \o " analysis failed",
      insights |-> Items(tag, 2)],
     [insights |-> Items(tag, MaxPhaseInsights),
      assumptions |-> Items(tag \o "-assumed", 2),
      limitations |-> Items(tag \o "-limit", 2)]}
    \cup {[insights |-> Items(tag, n)] : n \in 0..MaxPhaseInsights}

SynthInit ==
    /\ pc = "synthesis"
    /\ req = [query |-> <<"a", "a", "a">>, assets |-> NoneAssets]
    /\ handed = NoneAssets
    /\ ctx = NewContext(req.query, handed, 0, "id-1")
    /\ idx = 5
    /\ \E macro \in SynthOutputs("macro"),
          sentiment \in SynthOutputs("sentiment"),
          onchain \in SynthOutputs("onchain"),
          structure \in SynthOutputs("structure") :
            phase_results = <<PhaseResult("macro", macro),
                              PhaseResult("sentiment", sentiment),
                              PhaseResult("onchain", onchain),
                              PhaseResult("market_structure", structure)>>
    /\ pipeline_result = EmptyDict
    /\ analysis_result = EmptyDict
    /\ research_report = EmptyDict
    /\ resp = NoResp
    /\ objs = InitObjs
    /\ clock = 0
    /\ faults = 0
    /\ trace = <<>>
    /\ warm = FALSE
    /\ settings = Settings("1.0.0")
    /\ api_config = GetApiConfig(settings)

\* the last turn of the loop of execute_research and the compilation of the
\* report, lines 112-126; the locals are kept for inspection
SynthesizeAndCompile(raised) ==
    LET self == objs.analyzer.research_pipeline
        results == Append(phase_results,
                          ExecuteSynthesisPhase(ctx, phase_results, raised))
    IN  /\ pc = "synthesis"
        /\ pc' = "compiled"
        /\ faults' = IF raised THEN 1 ELSE 0
        /\ phase_results' = results
        /\ pipeline_result' = CompileResearchReport(self, ctx, results)
        /\ UNCHANGED <<req, handed, ctx, idx, analysis_result, research_report,
                       resp, objs, clock, trace, warm, settings, api_config>>

\* analyzer.py 54-61 and analyze_market, lines 157-174
Deliver ==
    LET analysis == FormatPipelineResults(pipeline_result)
        report == FormatResearchReport(analysis, req.query, clock, FALSE)
        converted == ConvertToApiResponse(report, req.query)
    IN  /\ pc = "compiled"
        /\ pc' = "delivered"
        /\ analysis_result' = analysis
        /\ research_report' = report
        /\ resp' = HttpOk(converted.value)
        /\ UNCHANGED <<req, handed, ctx, idx, phase_results, pipeline_result,
                       objs, clock, faults, trace, warm, settings, api_config>>

SynthNext ==
    \/ \E raised \in BOOLEAN : SynthesizeAndCompile(raised)
    \/ Deliver

SynthSpec == SynthInit /\ [][SynthNext]_vars

-----------------------------------------------------------------------------
(* Properties *)

\* the request of req has been answered with resp
Answered == pc = "done"

\* number of characters of s from its first to its last non-blank one
TrimmedLen(s) ==
    LET core == {i \in 1..Len(s) : s[i] # Space}
    IN  IF core = {} THEN 0
        ELSE (CHOOSE i \in core : \A j \in core : j <= i)
             - (CHOOSE i \in core : \A j \in core : i <= j) + 1

ValidQuery(query) == TrimmedLen(query) >= 3

\* C1: a request whose query has fewer than 3 characters is answered with
\* HTTP 400, never with 200 or 500
C1_ShortQueryIs400 ==
    (Answered /\ Len(req.query) < 3) => resp.status = 400

C1_Witness ==
    /\ Answered
    /\ Len(req.query) = 2
    /\ req.query[1] # Space
    /\ resp.status = 400

\* C2: a request with a valid query and an assets list of more than 10
\* entries is answered with HTTP 400
C2_TooManyAssetsIs400 ==
    (Answered /\ ValidQuery(req.query)
        /\ ~req.assets.none /\ Len(req.assets.list) > 10)
    => resp.status = 400

C2_Witness ==
    /\ Answered
    /\ ValidQuery(req.query)
    /\ ~req.assets.none
    /\ Len(req.assets.list) = 11
    /\ resp.status = 400

\* the asset list a 200 response reports as analyzed
ReportedAssets(body) == body.metadata.research_metadata.assets_analyzed

\* C3: a valid query sent with no assets (absent or null) is answered with
\* a response that reports ["bitcoin", "ethereum"] as the assets analyzed
C3_DefaultAssetsReported ==
    (Answered /\ req.assets.none /\ resp.status = 200 /\ faults = 0)
    => ReportedAssets(resp.body) =
          << <<"b","i","t","c","o","i","n">>, <<"e","t","h","e","r","e","u","m">> >>

\* C4: every 200 response carries a disclaimer that is not empty and is the
\* one fixed text of the report formatter, whatever the query and assets
C4_FixedDisclaimer ==
    (Answered /\ resp.status = 200)
    => /\ resp.body.disclaimer # ""
       /\ resp.body.disclaimer = GetProfessionalDisclaimer

C4_Witness ==
    /\ Answered
    /\ resp.status = 200
    /\ ~req.assets.none
    /\ Len(resp.body.disclaimer) > 0

\* steps of the answered request that ended in an error
Failed(components) ==
    \E i \in 1..Len(trace) : trace[i].error /\ trace[i].component \in components

\* the runtime threw in no step but, possibly, these
ThrownOnlyIn(components) ==
    \A i \in 1..Len(trace) : trace[i].thrown => trace[i].component \in components

C7_AnalyzersReturnInsights ==
    faults = 0 =>
        \A i \in 1..Len(phase_results) :
            phase_results[i].phase \in AnalysisPhases
            => /\ "insights" \in DOMAIN phase_results[i].data
               /\ ~HasError(phase_results[i].data)

Validated == pc \notin {"idle", "validate", "served"} /\ resp.status # 400

NonBlank(entry) == \E i \in 1..Len(entry) : entry[i] # Space

\* entry without the blanks before its first and after its last other character
Core(entry) ==
    LET core == {i \in 1..Len(entry) : entry[i] # Space}
    IN  IF core = {} THEN <<>>
        ELSE SubSeq(entry, CHOOSE i \in core : \A j \in core : i <= j,
                           CHOOSE i \in core : \A j \in core : j <= i)

LowerCased(entry) ==
    [i \in 1..Len(entry) |->
        CASE entry[i] = "A" -> "a" [] entry[i] = "B" -> "b" [] OTHER -> entry[i]]

\* position in list of its n-th non-blank entry
NthNonBlank(list, n) ==
    CHOOSE i \in 1..Len(list) :
        /\ NonBlank(list[i])
        /\ Cardinality({k \in 1..(i - 1) : NonBlank(list[k])}) = n - 1

\* C9: the asset list handed to the analyzer holds exactly the request's
\* non-blank entries, lower-cased and trimmed, in their original order (no
\* list is handed over for a request without entries), and normalising the
\* handed list again changes nothing
C9_HandedAssetsNormalised ==
    Validated =>
        IF req.assets.none \/ req.assets.list = <<>>
          THEN handed.none
          ELSE /\ ~handed.none
               /\ Len(handed.list) =
                     Cardinality({i \in 1..Len(req.assets.list) : NonBlank(req.assets.list[i])})
               /\ \A n \in 1..Len(handed.list) :
                     handed.list[n] =
                        LowerCased(Core(req.assets.list[NthNonBlank(req.assets.list, n)]))
               /\ NormalizeAssets(handed.list) = handed.list

C9_Witness ==
    /\ Validated
    /\ ~req.assets.none
    /\ Len(req.assets.list) = 2
    /\ ~NonBlank(req.assets.list[1])
    /\ req.assets.list[2] = <<Space, "B">>
    /\ handed = SomeAssets(<< <<"b">> >>)

\* What a process that has served nothing yet answers to a request, when
\* every time read is 0, the generated id is "id-1" and nothing is thrown
RECURSIVE FreshPhases(_, _, _)
FreshPhases(context, phases, results) ==
    IF phases = <<>> THEN results
    ELSE FreshPhases(context, Tail(phases),
            Append(results,
                   IF Head(phases) = "synthesis"
                     THEN ExecuteSynthesisPhase(context, results, FALSE)
                     ELSE ExecuteAnalysisPhase(Head(phases), context, 0, FALSE)))

FreshAnalysis(request) ==
    LET assets == IF Truthy(request.assets)
                    THEN SomeAssets(NormalizeAssets(request.assets.list))
                    ELSE NoneAssets
        self == InitObjs.analyzer.research_pipeline
        context == NewContext(request.query, assets, 0, "id-1")
        report == CompileResearchReport(self, context,
                     FreshPhases(context, self.pipeline_phases, <<>>))
    IN  IF PipelineFailed(report)
          THEN AnalyzerErrorResponse(Get(report, "message", "Pipeline failed"))
          ELSE FormatPipelineResults(report)

FreshResponse(request) ==
    IF QueryRejected(request.query)
      THEN HttpError(400, "Query must be at least 3 characters long")
    ELSE IF TooManyAssets(request.assets)
      THEN HttpError(400, "Maximum 10 assets allowed per request")
    ELSE
      LET analysis == FreshAnalysis(request)
          converted == ConvertToApiResponse(
                          FormatResearchReport(analysis, request.query, 0, FALSE),
                          request.query)
      IN  IF HasError(analysis)
            THEN HttpError(500, "Analysis failed: "
                                \o Get(analysis, "message", "Unknown error"))
          ELSE IF converted.raised
            THEN HttpError(500, "Internal server error during analysis: "
                                \o converted.msg)
          ELSE HttpOk(converted.value)

\* a response without the times and ids it carries
Content(response) ==
    IF response.status = 200
      THEN [status |-> 200,
            query |-> response.body.query,
            summary |-> response.body.summary,
            market_conditions |-> response.body.market_conditions,
            analysis_sections |-> response.body.analysis_sections,
            key_insights |-> response.body.key_insights,
            risk_factors |-> response.body.risk_factors,
            educational_context |-> response.body.educational_context,
            disclaimer |-> response.body.disclaimer]
      ELSE response

\* C5: requests with the same query and assets get the same
\* analysis_sections and key_insights whenever and in whatever order they
\* are served: those of a 200 response are the ones a fresh process returns
\* for that query and those assets at a fixed time
C5_Deterministic ==
    (Answered /\ resp.status = 200 /\ faults = 0)
    => /\ FreshResponse(req).status = 200
       /\ resp.body.analysis_sections = FreshResponse(req).body.analysis_sections
       /\ resp.body.key_insights = FreshResponse(req).body.key_insights

C5_Witness ==
    /\ Answered
    /\ resp.status = 200
    /\ faults = 0
    /\ warm
    /\ resp.body.timestamp > 0
    /\ resp.body.analysis_sections = FreshResponse(req).body.analysis_sections

\* C10: after any sequence of requests the analyzer, pipeline and formatter
\* objects are as constructed, and what a request is answered with (times
\* and ids apart) is what a process that has served nothing answers to it
C10_NoStateAcrossRequests ==
    /\ objs = InitObjs
    /\ (Answered /\ warm /\ faults = 0) => Content(resp) = Content(FreshResponse(req))

C10_Witness ==
    /\ Answered
    /\ warm
    /\ faults = 0
    /\ resp.status = 200
    /\ objs = InitObjs

\* the steps of the running request that are pipeline phases, in the order
\* in which they ran
PhasesRun ==
    SelectSeq(trace, LAMBDA s : s.component \in AnalysisPhases \cup {"synthesis"})

PhaseOrder == <<"macro", "sentiment", "onchain", "market_structure", "synthesis">>

\* position in the trace of the first step of a component, 0 if none
FirstStep(component) ==
    LET at == {i \in 1..Len(trace) : trace[i].component = component}
    IN  IF at = {} THEN 0 ELSE CHOOSE i \in at : \A j \in at : i <= j

\* C11: within one request the phases run one after another in the order
\* macro, sentiment, on-chain, market-structure, synthesis, each at most
\* once; the synthesis is handed the results of all four analysis phases;
\* the formatter runs only after the synthesis; and a request that reaches
\* the formatter has run each phase exactly once
C11_PhasesInOrder ==
    /\ Len(PhasesRun) <= Len(PhaseOrder)
    /\ \A i \in 1..Len(PhasesRun) : PhasesRun[i].component = PhaseOrder[i]
    /\ pc = "phases" =>
          /\ Len(phase_results) = Len(PhasesRun)
          /\ \A i \in 1..Len(phase_results) : phase_results[i].phase = PhaseOrder[i]
          /\ idx = Len(phase_results) + 1
    /\ FirstStep("synthesis") > 0 =>
          \A p \in AnalysisPhases :
              FirstStep(p) > 0 /\ FirstStep(p) < FirstStep("synthesis")
    /\ FirstStep("formatter") > 0 =>
          /\ FirstStep("synthesis") > 0
          /\ FirstStep("synthesis") < FirstStep("formatter")
          /\ Len(PhasesRun) = Len(PhaseOrder)

C11_Witness ==
    /\ Answered
    /\ resp.status = 200
    /\ FirstStep("formatter") > FirstStep("synthesis")
    /\ Len(PhasesRun) = 5

\* the step of the running request in which a phase ran
PhaseStep(phase) == trace[FirstStep(phase)]

\* C12: the analyze operation of a phase analyzer never raises to the
\* pipeline: whatever is thrown inside it, the pipeline receives a
\* dictionary, which carries error = true and a message when something was
\* thrown; the except clause of the pipeline's phase wrapper is never used
C12_AnalyzersNeverRaise ==
    \A i \in 1..Len(phase_results) :
        phase_results[i].phase \in AnalysisPhases =>
            LET data == phase_results[i].data
            IN  /\ "raised" \notin DOMAIN data
                /\ phase_results[i].limitations # <<"Phase execution error">>
                /\ HasError(data) =>
                      data.error = PyTrue /\ "message" \in DOMAIN data
                /\ PhaseStep(phase_results[i].phase).thrown => HasError(data)

C12_Witness ==
    /\ pc = "phases"
    /\ Len(phase_results) = 4
    /\ PhaseStep("market_structure").thrown
    /\ phase_results[4].data.error = PyTrue
    /\ "message" \in DOMAIN phase_results[4].data

\* a valid request, and what a fresh process answers to it
ReferenceRequest == [query |-> <<"a", "a", "a">>, assets |-> NoneAssets]

ReferenceResponse == FreshResponse(ReferenceRequest)

\* C13: the analysis content does not depend on the input: whatever valid
\* query and asset list a request carries, the analysis_sections and the
\* key_insights of its 200 response are those of the response to one fixed
\* request, so any two responses agree on them
C13_ContentIndependentOfInput ==
    (Answered /\ resp.status = 200 /\ faults = 0)
    => /\ ReferenceResponse.status = 200
       /\ resp.body.analysis_sections = ReferenceResponse.body.analysis_sections
       /\ resp.body.key_insights = ReferenceResponse.body.key_insights

C13_Witness ==
    /\ Answered
    /\ resp.status = 200
    /\ faults = 0
    /\ req.query # ReferenceRequest.query
    /\ handed = SomeAssets(<< <<"b">>, <<"a">> >>)
    /\ resp.body.analysis_sections = ReferenceResponse.body.analysis_sections

\* a GET of this path has been answered with resp
Served(path) == pc = "served" /\ req.path = path

\* C14: GET /health answers with 200, status "healthy" and the configured
\* api_version, whatever was requested before and whenever (unless the
\* runtime throws inside the handler, whose except clause answers 500)
C14_HealthIsHealthy ==
    (Served("/health") /\ faults = 0)
    => /\ resp.status = 200
       /\ resp.body.status = "healthy"
       /\ resp.body.version = settings.api_version

C14_Witness ==
    /\ Served("/health")
    /\ faults = 0
    /\ warm
    /\ settings.api_version = "2.1.0"
    /\ resp.body.version = "2.1.0"
    /\ resp.body.status = "healthy"

\* C15: GET /info answers with the same capability strings and the same
\* limitation strings, whatever was requested before and whatever the
\* configuration (unless the runtime throws inside the handler)
C15_InfoListsFixed ==
    (Served("/info") /\ faults = 0)
    => /\ resp.status = 200
       /\ resp.body.capabilities = InfoCapabilities
       /\ resp.body.limitations = InfoLimitations
       /\ Len(resp.body.capabilities) = 8
       /\ Len(resp.body.limitations) = 6

C15_Witness ==
    /\ Served("/info")
    /\ faults = 0
    /\ warm
    /\ settings.api_version = "2.1.0"
    /\ resp.body.capabilities = InfoCapabilities

\* C16: a GET of a path that has no route is answered with HTTP 404
C16_UnknownRouteIs404 ==
    (pc = "served" /\ req.path \notin GetRoutes) => resp.status = 404

\* the request was answered with 200 and its synthesis step completed
Synthesized ==
    /\ Answered
    /\ resp.status = 200
    /\ FirstStep("synthesis") > 0
    /\ ~PhaseStep("synthesis").error

\* what the synthesis step of the answered request computed
Synthesis == PhaseStep("synthesis").data

\* C17: the market_conditions of the response carry the overall_state and
\* the dominant factors that the synthesis step computed for the request
C17_MarketConditionsFromSynthesis ==
    Synthesized
    => /\ resp.body.market_conditions.overall_state
             = Synthesis.overall_market_state.overall_state
       /\ resp.body.market_conditions.key_factors
             = Synthesis.overall_market_state.dominant_factors

\* C18: every insight among the key_insights of the synthesis step (the
\* first 10 of the phases' insights) is in the key_insights of the response
C18_SynthesisInsightsInResponse ==
    Synthesized
    => \A i \in 1..Len(Synthesis.key_insights) :
          \E j \in 1..Len(resp.body.key_insights) :
              resp.body.key_insights[j] = Synthesis.key_insights[i]

\* the label a phase handed to the synthesis carries under its key, or
\* "neutral" when it carries none
LabelOf(phase, outer, inner) ==
    LET data == GetPhaseData(phase_results, phase)
    IN  IF outer \in DOMAIN data /\ inner \in DOMAIN data[outer]
          THEN data[outer][inner]
          ELSE "neutral"

PhaseLabels ==
    <<LabelOf("macro", "overall_conditions", "overall"),
      LabelOf("sentiment", "overall_sentiment", "overall_sentiment"),
      LabelOf("onchain", "network_conditions", "overall_status"),
      LabelOf("market_structure", "market_phase", "overall_bias")>>

HowMany(labels) == Cardinality({i \in 1..4 : PhaseLabels[i] \in labels})

PositiveLike == HowMany({"positive", "supportive", "strong"})
NegativeLike == HowMany({"negative", "challenging", "weak"})

\* C19: the overall_state is "positive" exactly when strictly more phases
\* carry a positive-like label than a negative-like one, "negative" exactly
\* when strictly more carry a negative-like one, "neutral" otherwise; a
\* phase without label counts as neutral
C19_OverallStateByMajority ==
    pc = "assessed" =>
        LET state == pipeline_result.overall_market_state.overall_state
        IN  /\ state = "positive" <=> PositiveLike > NegativeLike
            /\ state = "negative" <=> NegativeLike > PositiveLike
            /\ state = "neutral" <=> PositiveLike = NegativeLike

C19_Witness ==
    /\ pc = "assessed"
    /\ PhaseLabels = <<"strong", "weak", "neutral", "supportive">>
    /\ "network_conditions" \notin DOMAIN GetPhaseData(phase_results, "onchain")
    /\ pipeline_result.overall_market_state.overall_state = "positive"

\* C20: when the sentiment phase reports the overall sentiment "neutral"
\* and the market-structure phase classified the market phase as "range",
\* the synthesis reports a sentiment/market-structure correlation
C20_SentimentStructureCorrelation ==
    (/\ pc = "phases"
     /\ Len(phase_results) = 5
     /\ ~HasError(phase_results[5].data)
     /\ LabelOf("sentiment", "overall_sentiment", "overall_sentiment") = "neutral"
     /\ LabelOf("market_structure", "market_phase", "current_phase") = "range")
    => \E i \in 1..Len(phase_results[5].data.cross_phase_correlations) :
          phase_results[5].data.cross_phase_correlations[i].type
              = "sentiment_structure"

\* the insights phase number i hands to the synthesis: those of its data
\* when the data is there and flags no error, none otherwise
Contribution(i) ==
    LET data == phase_results[i].data
    IN  IF DOMAIN data # {} /\ "error" \notin DOMAIN data /\ "insights" \in DOMAIN data
          THEN data.insights
          ELSE <<>>

\* macro, sentiment, on-chain, market-structure, in this order
Contributed ==
    Contribution(1) \o Contribution(2) \o Contribution(3) \o Contribution(4)

\* short is the first (at most n) elements of long
FirstOf(short, long, n) ==
    /\ Len(short) = (IF Len(long) <= n THEN Len(long) ELSE n)
    /\ \A i \in 1..Len(short) : short[i] = long[i]

\* what the risk section is built from, for the report the pipeline compiled
RisksOfReport ==
    pipeline_result.limitations \o pipeline_result.assumptions \o StandardRisks

\* C21: the key_insights of the synthesis are the first (at most 10) of the
\* insights of the phases concatenated in phase order, failed phases
\* contributing nothing, and total_insights is the length before the cut;
\* the formatter's insight and risk lists are the first 10 and 15 of what
\* they are built from; the response has at most 10 key_insights and at
\* most 15 risk_factors
C21_TruncationKeepsPrefixes ==
    /\ (pc \in {"compiled", "delivered"} /\ faults = 0) =>
          /\ phase_results[5].data.total_insights = Len(Contributed)
          /\ FirstOf(phase_results[5].data.key_insights, Contributed, 10)
          /\ Len(FormatKeyInsights(pipeline_result).insights) <= 10
          /\ FirstOf(Field(FormatRisksUncertainty(pipeline_result).risk_factors, "risk"),
                     RisksOfReport, 15)
    /\ pc = "delivered" =>
          /\ Len(resp.body.key_insights) <= 10
          /\ Len(resp.body.risk_factors) <= 15

C21_Witness ==
    /\ pc = "delivered"
    /\ faults = 0
    /\ Len(Contributed) = 12
    /\ HasError(phase_results[2].data)
    /\ Len(phase_results[2].data.insights) = 2
    /\ Len(phase_results[5].data.key_insights) = 10
    /\ phase_results[5].data.key_insights[10] = "structure-2"
    /\ Len(RisksOfReport) > 15

\* the research context the pipeline built for the answered request
Context == PhaseStep("analyzer").context

\* C22: the report_id of the response's metadata is the research_id the
\* pipeline generated for the request, and the timestamp of the response is
\* the timestamp of the request's research context
C22_IdAndTimestampFromContext ==
    (Answered /\ resp.status = 200)
    => /\ resp.body.metadata.research_metadata.report_id = Context.research_id
       /\ resp.body.timestamp = Context.timestamp

\* the key of analysis_sections that holds the section of a phase
SectionOf(phase) ==
    CASE phase = "macro" -> "macroeconomic"
      [] phase = "sentiment" -> "sentiment"
      [] phase = "onchain" -> "onchain"
      [] phase = "market_structure" -> "market_structure"

\* C25: when the result of a phase analyzer carries an error flag, the
\* section of that phase in the response's analysis_sections is the
\* section-error shape: error = true, status "section_failed",
\* confidence_level "low"
C25_FailedPhaseGivesSectionError ==
    (Answered /\ resp.status = 200)
    => \A phase \in AnalysisPhases :
          PhaseStep(phase).error =>
              LET section == resp.body.analysis_sections[SectionOf(phase)]
              IN  /\ "error" \in DOMAIN section
                  /\ section.error = PyTrue
                  /\ Get(section, "status", PyNone) = "section_failed"
                  /\ Get(section, "confidence_level", PyNone) = "low"

\* execute_research has ended and MacroChainAnalyzer.analyze has its outcome
PipelineEnded == pc = "formatted"

\* the shape of _error_response of the pipeline for the request's context
IsPipelineError(result) ==
    /\ DOMAIN result = {"error", "message", "research_metadata", "disclaimer"}
    /\ result.error = PyTrue
    /\ result.research_metadata.query = Strip(req.query)
    /\ result.research_metadata.research_id = Context.research_id

\* the shape of _error_response of MacroChainAnalyzer
IsAnalyzerError(result) ==
    /\ DOMAIN result = {"error", "message", "disclaimer"}
    /\ result.error = PyTrue

\* C23: execute_research never raises to its caller: whatever is thrown at
\* whatever point of the run, it returns a dictionary with error = true, a
\* message, the request's research_metadata and a disclaimer; and
\* MacroChainAnalyzer.analyze turns that into its own error result
C23_PipelineNeverRaises ==
    /\ PipelineEnded =>
          /\ Get(pipeline_result, "raised", FALSE) = FALSE
          /\ Failed({"analyzer", "compile"}) => IsPipelineError(pipeline_result)
    /\ (pc = "check" /\ Failed({"analyzer", "compile"}))
          => IsAnalyzerError(analysis_result)

\* C24: validation precedes all analysis work: when POST /analyze answers
\* with HTTP 400, the validation is the only step taken for that request:
\* no phase analyzer, no synthesis and no formatter has been invoked, and
\* nothing has been handed to the analyzer
C24_RejectionBeforeAnalysis ==
    (Answered /\ resp.status = 400)
    => /\ trace = <<Step("validate", FALSE, FALSE)>>
       /\ handed = NoneAssets
       /\ ctx = EmptyDict
       /\ phase_results = <<>>
       /\ pipeline_result = EmptyDict
       /\ objs = InitObjs

C24_Witness ==
    /\ Answered
    /\ resp.status = 400
    /\ Len(trace) = 1
    /\ warm
    /\ req.query = <<Space, "a", "a", Space>>

\* the request carries a list of at most 10 entries, none of which has a
\* character other than blanks
BlankOnly(assets) ==
    /\ ~assets.none
    /\ Len(assets.list) <= 10
    /\ \A i \in 1..Len(assets.list) : ~NonBlank(assets.list[i])

BitcoinAndEthereum ==
    << <<"b", "i", "t", "c", "o", "i", "n">>, <<"e", "t", "h", "e", "r", "e", "u", "m">> >>

\* the pipeline has built its research context for the running request
ContextBuilt ==
    /\ FirstStep("analyzer") # 0
    /\ ~PhaseStep("analyzer").thrown

\* C26: a request whose asset list is empty or holds only blank entries
\* (at most 10 of them) is treated like a request without assets: it is not
\* rejected, and the pipeline's research context uses bitcoin and ethereum
C26_BlankAssetsAreDefault ==
    (pc \notin {"idle", "validate", "served"} /\ BlankOnly(req.assets))
    => /\ ValidQuery(req.query) => resp.status # 400
       /\ resp.status = 400 => resp.detail = "Query must be at least 3 characters long"
       /\ ContextBuilt => Context.assets = BitcoinAndEthereum

C26_Witness ==
    /\ pc # "served"
    /\ BlankOnly(req.assets)
    /\ Len(req.assets.list) = 10
    /\ ContextBuilt
    /\ Context.assets = BitcoinAndEthereum
    /\ Answered
    /\ resp.status = 200

\* number of entries of a list that are not blank
NonBlankCount(list) == Cardinality({i \in 1..Len(list) : NonBlank(list[i])})

RejectedForAssetCount ==
    /\ resp.status = 400
    /\ resp.detail = "Maximum 10 assets allowed per request"

\* C27: the limit of 10 assets is applied to the number of entries as sent:
\* a request with more than 10 entries is rejected with HTTP 400 even when
\* 10 or fewer of them are non-blank, and a request with at most 10 entries
\* is never rejected for its asset count
C27_LimitCountsEntriesAsSent ==
    Answered =>
        /\ (ValidQuery(req.query) /\ ~req.assets.none /\ Len(req.assets.list) > 10
                /\ NonBlankCount(req.assets.list) <= 10)
            => RejectedForAssetCount
        /\ (req.assets.none \/ Len(req.assets.list) <= 10) => ~RejectedForAssetCount

C27_Witness ==
    /\ Answered
    /\ ~req.assets.none
    /\ Len(req.assets.list) = 11
    /\ NonBlankCount(req.assets.list) = 0
    /\ RejectedForAssetCount

RejectedForQueryLength ==
    /\ resp.status = 400
    /\ resp.detail = "Query must be at least 3 characters long"

\* C28: the minimum of 3 characters is applied to the query without its
\* leading and trailing blanks: a query of raw length 3 or more whose trimmed
\* length is below 3 is rejected with HTTP 400, and a query whose trimmed
\* length is at least 3 is never rejected for its length
C28_MinimumCountsTrimmedQuery ==
    Answered =>
        /\ (Len(req.query) >= 3 /\ TrimmedLen(req.query) < 3) => RejectedForQueryLength
        /\ TrimmedLen(req.query) >= 3 => ~RejectedForQueryLength

C28_Witness ==
    /\ Answered
    /\ Len(req.query) = 4
    /\ TrimmedLen(req.query) = 2
    /\ req.assets.none
    /\ RejectedForQueryLength

\* the pipeline has compiled its report from the five phase results
Compiled == pc = "compiled"

\* the data of a phase result carries an error
CarriesError(result) == "error" \in DOMAIN result.data

\* C29: in every report compiled by the pipeline, pipeline_execution has
\* total_phases = 5, phase_details has exactly one entry for each of the
\* five phases, the status of an entry is "failed" exactly when the data of
\* that phase carries an error and "success" otherwise, and phases_completed
\* is the number of "success" entries, between 0 and total_phases
C29_PhaseDetailsMatchResults ==
    Compiled =>
        LET execution == pipeline_result.pipeline_execution
            details == execution.phase_details
        IN  /\ execution.total_phases = 5
            /\ DOMAIN details =
                  {"macro", "sentiment", "onchain", "market_structure", "synthesis"}
            /\ Len(phase_results) = 5
            /\ \A i \in 1..5 :
                  /\ phase_results[i].phase = PhaseOrder[i]
                  /\ details[PhaseOrder[i]].status \in {"success", "failed"}
                  /\ details[PhaseOrder[i]].status = "failed"
                        <=> CarriesError(phase_results[i])
            /\ execution.phases_completed =
                  Cardinality({p \in DOMAIN details : details[p].status = "success"})
            /\ execution.phases_completed \in 0..execution.total_phases

C29_Witness ==
    /\ Compiled
    /\ CarriesError(phase_results[1])
    /\ CarriesError(phase_results[5])
    /\ phase_results[3].data = EmptyDict
    /\ pipeline_result.pipeline_execution.phases_completed = 3
    /\ pipeline_result.pipeline_execution.phase_details["synthesis"].status = "failed"
    /\ pipeline_result.pipeline_execution.phase_details["onchain"].status = "success"

\* the analysis phases whose data is non-empty and carries no error
SucceededPhases ==
    {i \in 1..4 : phase_results[i].data # EmptyDict /\ ~CarriesError(phase_results[i])}

\* C30: the research_quality of the synthesis counts as successful exactly
\* the analysis phases (out of 4) whose data is non-empty and carries no
\* error; its quality_level is "high" when at least 3 succeeded, "moderate"
\* when exactly 2 succeeded and "low" when at most 1 succeeded; and
\* successful_phases never exceeds total_phases
C30_QualityCountsSucceededPhases ==
    (Compiled /\ ~CarriesError(phase_results[5])) =>
        LET quality == phase_results[5].data.research_quality
            n == Cardinality(SucceededPhases)
        IN  /\ quality.successful_phases = n
            /\ quality.total_phases = 4
            /\ quality.successful_phases <= quality.total_phases
            /\ n >= 3 => quality.quality_level = "high"
            /\ n = 2 => quality.quality_level = "moderate"
            /\ n <= 1 => quality.quality_level = "low"
            /\ pipeline_result.research_quality = quality

C30_Witness ==
    /\ Compiled
    /\ ~CarriesError(phase_results[5])
    /\ SucceededPhases = {1, 4}
    /\ phase_results[2].data = EmptyDict
    /\ CarriesError(phase_results[3])
    /\ phase_results[5].data.research_quality.quality_level = "moderate"
    /\ phase_results[5].data.research_quality.successful_phases = 2

=============================================================================
